---- MODULE Spec2Model ----
(***************************************************************************)
(* Reliability layer of the flights scraper: the sliding-window rate       *)
(* limiter (src/utils/rate-limiter.ts), the retry scheduler                *)
(* (src/utils/retry.ts) and the in-memory cache (src/utils/cache.ts).      *)
(*                                                                         *)
(* Every Effect operation (Ref.modify, Ref.getAndSet, Ref.update,          *)
(* Effect.sleep, ...) is one atomic step of a fiber; the synchronous code  *)
(* of a generator between two yield* (for instance `Date.now()` before the *)
(* first Ref operation) belongs to the step that ends at the next yield*,  *)
(* so another fiber may run between a clock read and the Ref operation     *)
(* that follows it.  Time is a discrete clock in model milliseconds.       *)
(***************************************************************************)
EXTENDS Integers, Sequences, FiniteSets, TLC

\* ---------------------------------------------------------------- bounds
NumFibers == 3      \* concurrent fibers using the rate limiter
MaxCalls == 3       \* acquire() calls started in one behaviour
MaxTime == 4        \* last clock value
StartTime == 1      \* Date.now() is positive from the start
NoGap == 0 - 1      \* minGap while fewer than two acquires have returned
NumResetFibers == 1  \* fibers calling acquire() beside the caller of reset()
MsPerSecond == 2    \* model milliseconds in one second of the reported wait
NoStats == 0 - 1    \* stats while getStats() has not been called

\* ----------------------------------------------- rate limiter configuration
MaxRequests == 2    \* config.maxRequests
WindowMs == 3       \* config.windowMs
MinDelayMs == 2     \* config.minDelay when spacing is enabled

\* ------------------------------------------------------ retry configuration
MaxAttempts == 3    \* defaultRetryConfig.maxAttempts
BackoffFactor == 2  \* defaultRetryConfig.backoffFactor
InitialDelay == 1   \* config.initialDelay, in model milliseconds
MaxDelay == 2       \* config.maxDelay, in model milliseconds

\* ------------------------------------------------------ cache configuration
MaxSize == 2           \* config.maxSize
Ttl == 2               \* config.ttl, in model milliseconds
NumCacheFibers == 2    \* concurrent fibers using the cache
MaxCacheOps == 3       \* get/set/clear calls started in one behaviour

\* ------------------------------------------------------------ scraper
NumScrapeFibers == 1   \* fibers calling scrape()
MaxScrapes == 3        \* calls of scrape() started in one behaviour

\* ---------------------------------------------------- pipeline inputs
MaxFlights == 3        \* flights in a raw Result
MaxLimit == 2          \* largest numeric filters.limit
MaxCount == 1          \* largest count of children or infants of a search

Fibers == 1..NumFibers
ScrapeFibers == 1..NumScrapeFibers
ResetFibers == 1..NumResetFibers
CacheFibers == 1..NumCacheFibers
\* cache keys are arbitrary strings, the empty string among them
Keys == {"", "a", "b"}
\* Result values held by the cache: the code never inspects the data it stores,
\* so each set() stores a value of its own, numbered by the call that stores it
Results == 1..MaxCacheOps
Null == 0

VARIABLES
    clock,          \* Date.now() / Clock.currentTimeMillis
    \* rate limiter
    minDelay,       \* config.minDelay of this limiter instance
    requestsRef,    \* Ref<RequestRecord[]>: sequence of timestamps
    lastRequestRef, \* Ref<number>
    lpc,            \* per fiber: position inside acquire()/reset()
    lnow,           \* per fiber: the `now` its acquire() read
    lwake,          \* per fiber: instant its Effect.sleep ends
    calls,          \* history: acquire() calls started
    admitted,       \* history: admitted acquires, [ts |-> now, at |-> instant of the Ref.modify]
    rejected,       \* history: number of acquires failed with RateLimitExceeded
    lastReturn,     \* history: instant the latest admitted acquire returned (0: none yet)
    minGap,         \* history: smallest time between two successive returns (NoGap: fewer than two)
    stalled,        \* history: some acquire() ran a Ref operation after the clock had moved past its `now`
    retryAt,        \* history: instant the wait reported by the latest rejection is over (0: none, or an acquire was checked since)
    resetPc,        \* position of the caller of reset(): idle, half (requestsRef is set), done
    windowClean,    \* history: reset() has set requestsRef and no acquire() has run its Ref.modify since
    lastClean,      \* history: reset() has set lastRequestRef and no acquire() has run its Ref.getAndSet since
    stats,          \* `requests` of the getStats() called after reset() (NoStats: not called)
    \* retry scheduler (one wrapped operation)
    script,         \* the wrapped operation: its outcome at invocation 1, 2, ...
    rpc,            \* position of the wrapped effect: idle, running, sleeping, done
    invocations,    \* history: invocations of the wrapped operation started
    sleeps,         \* history: backoff sleeps started
    outcome,        \* what withRetry returned to its caller ("none" until done)
    schedSteps,     \* schedule state: steps taken (state of Schedule.forever inside exponential/recurs)
    schedStart,     \* schedule state of Schedule.elapsed: instant of the first step (0: Option.none)
    rwake,          \* instant the backoff sleep ends
    \* cache
    cacheRef,       \* Ref<Map<string, CacheEntry>>: entries in Map insertion order
    cpc,            \* per fiber: position inside get()/set()
    ckey,           \* per fiber: the key of its pending get()/set()
    cval,           \* per fiber: the value of its pending set()
    cnow,           \* per fiber: the `now` its set() read
    cacheOps,       \* history: cache operations started
    lastGet,        \* history: the get() that read the map last, until a set() or clear() starts
    lastMut,        \* history: the latest set()/clear() applied to the map
    everSet,        \* history: keys some set() has stored
    \* filter/sort/limit pipeline (one call of applyFiltersAndSort)
    pflights,       \* result.flights
    pfilters,       \* filters
    psort,          \* sortOption
    ppc,            \* ready, done
    pfiltered,      \* the local `filtered`
    psorted,        \* the local `sorted`
    presult,        \* flights of the Result returned
    \* createCacheKey (two calls)
    kparams,        \* the parameters of the two calls
    kkeys,          \* the keys the two calls return (<< >> before the calls)
    \* ScraperProductionLive (one scrape() per fiber)
    spc,            \* per fiber: position inside scrape()
    sreq,           \* per fiber: the arguments of its scrape()
    skey,           \* per fiber: the local `cacheKey`
    snow,           \* per fiber: the `now` read by acquire() or by cache.set
    swake,          \* per fiber: instant its spacing or backoff sleep ends
    sched,          \* per fiber: state of the retry schedule of its fetch
    sresult,        \* per fiber: the local `cached` or `result`
    sreturn,        \* per fiber: what scrape() returned (NoReturn before)
    scount,         \* history, per fiber: cache reads, encodings, acquires, HTTP GETs, backoff sleeps
    gets,           \* history: HTTP GETs sent at each instant
    scrapes,        \* history: calls of scrape() started
    storer,         \* history: the arguments of the scrape() whose cache.set ran last
    \* parseFlightsHtml (one call)
    hdoc,           \* the page: its flight containers in document order
    hpc,            \* ready, done
    hflights,       \* `flights` of the Result returned
    hfrom           \* history: <<containerIndex, itemIndex>> of the item each flight was built from

limiterRefs == <<requestsRef, lastRequestRef>>
limiterFibers == <<lpc, lnow, lwake>>
limiterHistory == <<calls, admitted, rejected, lastReturn, minGap, stalled, retryAt>>
resetVars == <<resetPc, windowClean, lastClean, stats>>
limiterVars == <<minDelay, limiterRefs, limiterFibers, limiterHistory, resetVars>>

retryVars == <<script, rpc, invocations, sleeps, outcome, schedSteps, schedStart, rwake>>

cacheFibers == <<cpc, ckey, cval, cnow>>
cacheHistory == <<cacheOps, lastGet, lastMut, everSet>>
cacheVars == <<cacheRef, cacheFibers, cacheHistory>>

pipelineVars == <<pflights, pfilters, psort, ppc, pfiltered, psorted, presult>>

keyVars == <<kparams, kkeys>>

scraperVars == <<spc, sreq, skey, snow, swake, sched, sresult, sreturn, scount, gets, scrapes,
                 storer>>

parseVars == <<hdoc, hpc, hflights, hfrom>>

nonLimiter == <<retryVars, cacheVars, pipelineVars, keyVars, scraperVars, parseVars>>
nonRetry == <<limiterVars, cacheVars, pipelineVars, keyVars, scraperVars, parseVars>>
nonCache == <<limiterVars, retryVars, pipelineVars, keyVars, scraperVars, parseVars>>
nonPipeline == <<limiterVars, retryVars, cacheVars, keyVars, scraperVars, parseVars>>
nonKey == <<limiterVars, retryVars, cacheVars, pipelineVars, scraperVars, parseVars>>

nonParse == <<limiterVars, retryVars, cacheVars, pipelineVars, keyVars, scraperVars>>

vars == <<clock, limiterVars, retryVars, cacheVars, pipelineVars, keyVars, scraperVars,
         parseVars>>

Min(a, b) == IF a <= b THEN a ELSE b
Max(a, b) == IF a >= b THEN a ELSE b

RECURSIVE Pow(_, _)
Pow(b, n) == IF n = 0 THEN 1 ELSE b * Pow(b, n - 1)

\* ------------------------------------------------------------------ clock
Tick ==
    /\ clock < MaxTime
    /\ clock' = clock + 1

\* ------------------------------------------------- filter/sort/limit pipeline
\* Strings the code inspects character by character (prices, durations,
\* airline names) are sequences of one-character strings.
Digits == {"0", "1", "2", "3", "4", "5", "6", "7", "8", "9"}

DigitVal(c) ==
    CASE c = "0" -> 0 [] c = "1" -> 1 [] c = "2" -> 2 [] c = "3" -> 3 [] c = "4" -> 4
      [] c = "5" -> 5 [] c = "6" -> 6 [] c = "7" -> 7 [] c = "8" -> 8 [] c = "9" -> 9

\* length of the run of digits of s that starts at index i
RECURSIVE DigitRun(_, _)
DigitRun(s, i) ==
    IF i <= Len(s) /\ s[i] \in Digits THEN 1 + DigitRun(s, i + 1) ELSE 0

\* value of the n digits of s that start at index i (parseInt of a digit run)
RECURSIVE DigitsValue(_, _, _)
DigitsValue(s, i, n) ==
    IF n = 0 THEN 0 ELSE DigitsValue(s, i, n - 1) * 10 + DigitVal(s[i + n - 1])

\* digits after the decimal point that the fixed-point numbers keep
FracDigits == 1
\* numbers are fixed-point: PriceScale units make 1
PriceScale == Pow(10, FracDigits)
\* Number.POSITIVE_INFINITY: greater than every finite number
Infinity == 1000000

\* price.replace(/[^0-9.-]/g, "")
Stripped(price) == SelectSeq(price, LAMBDA c : c \in Digits \cup {".", "-"})

\* parseFloat(stripped): the longest prefix that is a decimal literal
\* (sign, digits, point, digits), NaN when that prefix holds no digit
parseFloat(s) ==
    LET neg == Len(s) >= 1 /\ s[1] = "-"
        start == IF neg THEN 2 ELSE 1
        intLen == DigitRun(s, start)
        dot == start + intLen
        hasDot == dot <= Len(s) /\ s[dot] = "."
        fracLen == IF hasDot THEN DigitRun(s, dot + 1) ELSE 0
        kept == Min(fracLen, FracDigits)
        magnitude == DigitsValue(s, start, intLen) * PriceScale
                         + DigitsValue(s, dot + 1, kept) * Pow(10, FracDigits - kept)
    IN [nan |-> intLen + fracLen = 0,
        val |-> IF neg THEN 0 - magnitude ELSE magnitude]

\* parsePriceToNumber
parsePriceToNumber(price) ==
    LET stripped == Stripped(price)
        parsed == parseFloat(stripped)
    IN IF ~parsed.nan /\ Len(stripped) > 0 THEN parsed.val ELSE Infinity

IsFinite(n) == n # Infinity

\* s holds the characters of word from index i on
StartsAt(s, i, word) ==
    /\ i + Len(word) - 1 <= Len(s)
    /\ \A j \in 1..Len(word) : s[i + j - 1] = word[j]

\* length of the run of blanks of s that starts at index i
RECURSIVE BlankRun(_, _)
BlankRun(s, i) ==
    IF i <= Len(s) /\ s[i] = " " THEN 1 + BlankRun(s, i + 1) ELSE 0

\* duration.match(/(\d+)\s*unit/): the digits of the leftmost match, parsed;
\* 0 when there is no match
MatchNumberBefore(s, unit) ==
    LET matches == {i \in 1..Len(s) :
                       /\ DigitRun(s, i) > 0
                       /\ StartsAt(s, i + DigitRun(s, i) + BlankRun(s, i + DigitRun(s, i)), unit)}
    IN IF matches = {} THEN 0
       ELSE LET i == CHOOSE m \in matches : \A o \in matches : m <= o
            IN DigitsValue(s, i, DigitRun(s, i))

\* parseDurationToMinutes
parseDurationToMinutes(duration) ==
    MatchNumberBefore(duration, <<"h", "r">>) * 60
        + MatchNumberBefore(duration, <<"m", "i", "n">>)

\* String.prototype.toLowerCase on the letters used in names
LowerChar(c) == CASE c = "A" -> "a" [] c = "B" -> "b" [] OTHER -> c

toLowerCase(s) == [i \in 1..Len(s) |-> LowerChar(s[i])]

\* String.prototype.includes
includes(s, word) == \E i \in 1..(Len(s) + 1) : StartsAt(s, i, word)

\* rank of a letter in the collation order, case aside
LetterRank(c) == CASE LowerChar(c) = "a" -> 1 [] LowerChar(c) = "b" -> 2 [] OTHER -> 0

\* lexicographic comparison of two sequences of numbers: -1, 0 or 1
RECURSIVE CompareRanks(_, _)
CompareRanks(x, y) ==
    IF x = << >> /\ y = << >> THEN 0
    ELSE IF x = << >> THEN 0 - 1
    ELSE IF y = << >> THEN 1
    ELSE IF Head(x) < Head(y) THEN 0 - 1
    ELSE IF Head(x) > Head(y) THEN 1
    ELSE CompareRanks(Tail(x), Tail(y))

\* a.localeCompare(b): letters first, then lower case before upper case
localeCompare(a, b) ==
    LET primary == CompareRanks([i \in 1..Len(a) |-> LetterRank(a[i])],
                                [i \in 1..Len(b) |-> LetterRank(b[i])])
        caseOf(s) == [i \in 1..Len(s) |-> IF LowerChar(s[i]) = s[i] THEN 0 ELSE 1]
    IN IF primary # 0 THEN primary ELSE CompareRanks(caseOf(a), caseOf(b))

SortOptions == {"price-asc", "price-desc", "duration-asc", "duration-desc", "airline", "none"}

CompareNaive(a, b, sortOption) ==
    IF sortOption = "price-asc" THEN parsePriceToNumber(a.price) - parsePriceToNumber(b.price)
    ELSE parsePriceToNumber(b.price) - parsePriceToNumber(a.price)

\* the comparator sortFlights hands to Array.prototype.sort; a NaN result
\* (Infinity - Infinity) counts as 0
Compare(a, b, sortOption) ==
    LET pA == parsePriceToNumber(a.price)
        pB == parsePriceToNumber(b.price)
    IN CASE sortOption = "price-asc" ->
                IF ~IsFinite(pA) /\ ~IsFinite(pB) THEN 0 ELSE pA - pB
         [] sortOption = "price-desc" ->
                IF ~IsFinite(pA) /\ ~IsFinite(pB) THEN 0
                ELSE IF ~IsFinite(pA) THEN 1
                ELSE IF ~IsFinite(pB) THEN 0 - 1
                ELSE pB - pA
         [] sortOption = "duration-asc" ->
                parseDurationToMinutes(a.duration) - parseDurationToMinutes(b.duration)
         [] sortOption = "duration-desc" ->
                parseDurationToMinutes(b.duration) - parseDurationToMinutes(a.duration)
         [] sortOption = "airline" -> localeCompare(a.name, b.name)
         [] OTHER -> 0

\* x placed behind the elements of the sorted list that do not come after it
RECURSIVE InsertStable(_, _, _)
InsertStable(sorted, x, sortOption) ==
    IF sorted = << >> THEN <<x>>
    ELSE IF Compare(sorted[Len(sorted)], x, sortOption) > 0
    THEN Append(InsertStable(SubSeq(sorted, 1, Len(sorted) - 1), x, sortOption),
                sorted[Len(sorted)])
    ELSE Append(sorted, x)

\* Array.prototype.sort: a stable sort by the comparator
RECURSIVE StableSort(_, _)
StableSort(s, sortOption) ==
    IF s = << >> THEN << >>
    ELSE InsertStable(StableSort(SubSeq(s, 1, Len(s) - 1), sortOption), s[Len(s)], sortOption)

\* sortFlights
sortFlights(flights, sortOption) ==
    IF sortOption = "none" THEN flights ELSE StableSort(flights, sortOption)

\* an optional numeric criterion that is not supplied
Undefined == 0 - 1
\* limit: "all"
All == 0 - 2

KeepsFlightNaZero(flight, filters) ==
    LET parsed == parsePriceToNumber(flight.price)
        price == IF parsed = Infinity THEN 0 ELSE parsed
        durationMinutes == parseDurationToMinutes(flight.duration)
    IN /\ ~(filters.maxPrice # Undefined /\ price > filters.maxPrice)
       /\ ~(filters.minPrice # Undefined /\ price < filters.minPrice)
       /\ ~(filters.maxDurationMinutes # Undefined
               /\ durationMinutes > filters.maxDurationMinutes)
       /\ ~(Len(filters.airlines) > 0
               /\ ~\E i \in 1..Len(filters.airlines) :
                      includes(toLowerCase(flight.name), toLowerCase(filters.airlines[i])))
       /\ ~(filters.nonstopOnly /\ flight.stops # 0)
       /\ ~(filters.max_stops # Undefined /\ flight.stops > filters.max_stops)

\* the callback of flights.filter
KeepsFlight(flight, filters) ==
    LET price == parsePriceToNumber(flight.price)
        durationMinutes == parseDurationToMinutes(flight.duration)
    IN /\ ~(filters.maxPrice # Undefined /\ price > filters.maxPrice)
       /\ ~(filters.minPrice # Undefined /\ price < filters.minPrice)
       /\ ~(filters.maxDurationMinutes # Undefined
               /\ durationMinutes > filters.maxDurationMinutes)
       /\ ~(Len(filters.airlines) > 0
               /\ ~\E i \in 1..Len(filters.airlines) :
                      includes(toLowerCase(flight.name), toLowerCase(filters.airlines[i])))
       /\ ~(filters.nonstopOnly /\ flight.stops # 0)
       /\ ~(filters.max_stops # Undefined /\ flight.stops > filters.max_stops)

\* filterFlights
filterFlights(flights, filters) == SelectSeq(flights, LAMBDA flight : KeepsFlight(flight, filters))

\* Array.prototype.slice(0, end) for end >= 0
SliceFromStart(s, end) == SubSeq(s, 1, Min(end, Len(s)))

LimitBeforeSort(flights, filters, sortOption) ==
    LET filtered == filterFlights(flights, filters)
        limited == IF filters.limit \notin {Undefined, All}
                   THEN SliceFromStart(filtered, filters.limit)
                   ELSE filtered
    IN sortFlights(limited, sortOption)

\* applyFiltersAndSort: the flights of the Result it returns
applyFiltersAndSort(flights, filters, sortOption) ==
    LET filtered == filterFlights(flights, filters)
        sorted == sortFlights(filtered, sortOption)
    IN IF filters.limit \notin {Undefined, All}
       THEN SliceFromStart(sorted, filters.limit)
       ELSE sorted

\* airline names, prices and durations as the markup extractor produces them
NameAa == <<"A", "a">>
NameAb == <<"a", "b">>
NameB == <<"B">>
PriceNA == <<"N", "/", "A">>

\* the flights a raw Result is made of
FlightCatalog == {
    [name |-> NameAa, price |-> <<"$", "2">>, duration |-> <<"1", "h", "r">>, stops |-> 0],
    [name |-> NameAb, price |-> <<"$", "3", ".", "5">>,
        duration |-> <<"1", " ", "h", "r", " ", "5", " ", "m", "i", "n">>, stops |-> 1],
    [name |-> NameB, price |-> PriceNA, duration |-> <<"9", "0", " ", "m", "i", "n">>, stops |-> 2] }

\* raw flight lists of up to MaxFlights flights
FlightLists == UNION {[1..n -> FlightCatalog] : n \in 0..MaxFlights}

\* FlightFilters values: each criterion absent or supplied
FilterChoices ==
    [maxPrice : {Undefined, 3 * PriceScale},
     minPrice : {Undefined, 3 * PriceScale},
     maxDurationMinutes : {Undefined, 60},
     airlines : {<< >>, <<<<"A">>>>},
     nonstopOnly : BOOLEAN,
     max_stops : {Undefined, 1},
     limit : {Undefined, All} \cup 1..MaxLimit]

PipelineUnused ==
    /\ pflights = << >>
    /\ pfilters = [maxPrice |-> Undefined, minPrice |-> Undefined,
                   maxDurationMinutes |-> Undefined, airlines |-> << >>,
                   nonstopOnly |-> FALSE, max_stops |-> Undefined, limit |-> Undefined]
    /\ psort = "none"
    /\ ppc = "unused"
    /\ pfiltered = << >>
    /\ psorted = << >>
    /\ presult = << >>


\* ------------------------------------------------------------------ cache key
\* String(n) for an integer n >= 0
RECURSIVE NumberToString(_)
NumberToString(n) ==
    LET digit == CHOOSE c \in Digits : DigitVal(c) = n % 10
    IN IF n < 10 THEN <<digit>> ELSE Append(NumberToString(n \div 10), digit)

\* String.prototype.toUpperCase on the letters used in currency codes
UpperChar(c) ==
    CASE c = "u" -> "U" [] c = "s" -> "S" [] c = "d" -> "D" [] c = "e" -> "E"
      [] c = "r" -> "R" [] OTHER -> c

toUpperCase(s) == [i \in 1..Len(s) |-> UpperChar(s[i])]

\* Array.prototype.join(sep) on an array of strings
RECURSIVE Join(_, _)
Join(parts, sep) ==
    IF parts = << >> THEN << >>
    ELSE IF Len(parts) = 1 THEN parts[1]
    ELSE parts[1] \o sep \o Join(Tail(parts), sep)

\* returnDate: undefined
NoDate == <<"undefined">>
\* the "none" the key holds for a missing return date
NoneLiteral == <<"n", "o", "n", "e">>

\* `returnDate || "none"`: undefined and the empty string are falsy
OrNone(returnDate) ==
    IF returnDate = NoDate \/ returnDate = << >> THEN NoneLiteral ELSE returnDate

\* createCacheKey
createCacheKey(from, to, departDate, tripType, returnDate, seat, adults, children, infants_in_seat, infants_on_lap, currency) ==
    Join(<<from, to, departDate, tripType, OrNone(returnDate), seat,
           NumberToString(adults), NumberToString(children),
           NumberToString(infants_in_seat), NumberToString(infants_on_lap),
           toUpperCase(currency)>>, <<"|">>)

OneWay == <<"o", "n", "e", "-", "w", "a", "y">>
RoundTrip == <<"r", "o", "u", "n", "d", "-", "t", "r", "i", "p">>
Economy == <<"e", "c", "o", "n", "o", "m", "y">>
Business == <<"b", "u", "s", "i", "n", "e", "s", "s">>
Usd == <<"U", "S", "D">>

\* parameters of a search, as scrape() hands them to createCacheKey
SearchParams ==
    [from : {<<"J">>, <<"J", "|", "L">>},
     to : {<<"L">>, <<"L", "|", "L">>},
     departDate : {<<"1">>, <<"2">>},
     tripType : {OneWay, RoundTrip},
     returnDate : {NoDate, NoneLiteral, <<"2">>},
     seat : {Economy, Business},
     adults : 1..(MaxCount + 1),
     children : 0..MaxCount,
     infants_in_seat : 0..MaxCount,
     infants_on_lap : 0..MaxCount,
     currency : {Usd, <<"u", "s", "d">>, <<"E", "U", "R">>}]

\* the searches the first of two calls is made with
BaseParams == {
    [from |-> <<"J">>, to |-> <<"L", "|", "L">>, departDate |-> <<"1">>, tripType |-> OneWay,
     returnDate |-> NoDate, seat |-> Economy, adults |-> 1, children |-> 0,
     infants_in_seat |-> 0, infants_on_lap |-> 0, currency |-> Usd],
    [from |-> <<"J">>, to |-> <<"L">>, departDate |-> <<"2">>, tripType |-> RoundTrip,
     returnDate |-> <<"2">>, seat |-> Business, adults |-> 2, children |-> 1,
     infants_in_seat |-> 1, infants_on_lap |-> 1, currency |-> <<"u", "s", "d">>] }

KeyOf(p) ==
    createCacheKey(p.from, p.to, p.departDate, p.tripType, p.returnDate, p.seat,
                   p.adults, p.children, p.infants_in_seat, p.infants_on_lap, p.currency)

KeyUnused ==
    /\ kparams = << >>
    /\ kkeys = << >>

\* ---------------------------------------------------------------- scraper
\* a JavaScript string from its characters
RECURSIVE AsString(_)
AsString(chars) == IF chars = << >> THEN "" ELSE chars[1] \o AsString(Tail(chars))

\* `passengers` left out by the caller
NoPassengers == [undefined |-> TRUE]

\* `{ adults: 1, children: 0, infants_in_seat: 0, infants_on_lap: 0 }`
DefaultPassengers == [adults |-> 1, children |-> 0, infants_in_seat |-> 0, infants_on_lap |-> 0]

\* `seat || "economy"`, `currency || "USD"`: undefined and "" are falsy
Falsy(s) == s = NoDate \/ s = << >>

OrDefault(s, default) == IF Falsy(s) THEN default ELSE s

\* `passengers || { adults: 1, ... }`
PassengersOrDefault(p) == IF p = NoPassengers THEN DefaultPassengers ELSE p

NeverMissing(tripType, returnDate) == FALSE

\* `tripType === "round-trip" && !returnDate`
MissingReturnDate(tripType, returnDate) == tripType = RoundTrip /\ Falsy(returnDate)

\* scrape(): the cache key of a request, with the defaults applied
CacheKey(r) ==
    LET seatClass == OrDefault(r.seat, Economy)
        passengerCounts == PassengersOrDefault(r.passengers)
        curr == OrDefault(r.currency, Usd)
    IN AsString(createCacheKey(r.from, r.to, r.departDate, r.tripType, r.returnDate,
                               seatClass, passengerCounts.adults, passengerCounts.children,
                               passengerCounts.infants_in_seat,
                               passengerCounts.infants_on_lap, curr))

NoFilters ==
    [maxPrice |-> Undefined, minPrice |-> Undefined, maxDurationMinutes |-> Undefined,
     airlines |-> << >>, nonstopOnly |-> FALSE, max_stops |-> Undefined, limit |-> Undefined]

\* the calls of scrape() the callers make: one search asked for twice, with the
\* optional arguments left out or spelled out and with different filters, sort
\* options, limits and max_stops, and round trips without a return date
ScrapeRequests == {
    [from |-> <<"J">>, to |-> <<"L">>, departDate |-> <<"1">>, tripType |-> OneWay,
     returnDate |-> NoDate, sortOption |-> "none", filters |-> NoFilters,
     seat |-> NoDate, passengers |-> NoPassengers, currency |-> NoDate],
    [from |-> <<"J">>, to |-> <<"L">>, departDate |-> <<"1">>, tripType |-> OneWay,
     returnDate |-> NoDate, sortOption |-> "price-asc",
     filters |-> [NoFilters EXCEPT !.maxPrice = 3 * PriceScale, !.limit = 1,
                                   !.max_stops = 1],
     seat |-> Economy, passengers |-> DefaultPassengers, currency |-> Usd],
    [from |-> <<"J">>, to |-> <<"L">>, departDate |-> <<"1">>, tripType |-> RoundTrip,
     returnDate |-> NoDate, sortOption |-> "none", filters |-> NoFilters,
     seat |-> NoDate, passengers |-> NoPassengers, currency |-> NoDate],
    [from |-> <<"J">>, to |-> <<"L">>, departDate |-> <<"1">>, tripType |-> RoundTrip,
     returnDate |-> << >>, sortOption |-> "price-asc",
     filters |-> [NoFilters EXCEPT !.limit = 1],
     seat |-> Economy, passengers |-> DefaultPassengers, currency |-> Usd] }

NoRequest == [undefined |-> TRUE]

\* the cache key of each of these calls
RequestKeys == [r \in ScrapeRequests |-> CacheKey(r)]

\* the flights the upstream page lists, in page order
UpstreamFlights ==
    <<[name |-> NameB, price |-> PriceNA, duration |-> <<"9", "0", " ", "m", "i", "n">>,
       stops |-> 2],
      [name |-> NameAb, price |-> <<"$", "3", ".", "5">>,
       duration |-> <<"1", " ", "h", "r", " ", "5", " ", "m", "i", "n">>, stops |-> 1],
      [name |-> NameAa, price |-> <<"$", "2">>, duration |-> <<"1", "h", "r">>, stops |-> 0]>>

\* scrape(): the `flightData` legs of a request
FlightDataOf(r) ==
    LET leg(date, from, to) ==
            [date |-> date, from_airport |-> from, to_airport |-> to,
             max_stops |-> r.filters.max_stops, airlines |-> r.filters.airlines]
    IN <<leg(r.departDate, r.from, r.to)>> \o
       (IF r.tripType = RoundTrip /\ ~Falsy(r.returnDate)
        THEN <<leg(r.returnDate, r.to, r.from)>>
        ELSE << >>)

\* seatMap and tripMap of encodeFlightSearch (0: no entry)
SeatMap(seat) == IF seat = Economy THEN 1 ELSE 0
TripMap(tripType) == IF tripType = RoundTrip THEN 1 ELSE IF tripType = OneWay THEN 2 ELSE 0

\* n copies of x
Repeat(x, n) == [i \in 1..n |-> x]

\* encodeFlightSearch: the Info message the token is the encoding of; the
\* protobuf bytes and their URL-safe base64 form are one-to-one with it
encodeFlightSearch(flightData, tripType, seat, passengers) ==
    [data |-> [i \in DOMAIN flightData |->
                  [date |-> flightData[i].date,
                   from_flight |-> flightData[i].from_airport,
                   to_flight |-> flightData[i].to_airport,
                   max_stops |-> flightData[i].max_stops,
                   airlines |-> flightData[i].airlines]],
     seat |-> SeatMap(seat),
     passengers |-> Repeat(1, passengers.adults) \o Repeat(2, passengers.children)
                    \o Repeat(3, passengers.infants_in_seat)
                    \o Repeat(4, passengers.infants_on_lap),
     trip |-> TripMap(tripType)]

\* scrape(): the URL of a request, with the defaults applied
UrlOf(r) ==
    [tfs |-> encodeFlightSearch(FlightDataOf(r), r.tripType, OrDefault(r.seat, Economy),
                                PassengersOrDefault(r.passengers)),
     curr |-> OrDefault(r.currency, Usd)]

\* the URL of each of these calls
RequestUrls == [r \in ScrapeRequests |-> UrlOf(r)]

\* an upstream whose response is a function of the URL: the flights of the
\* search the token asks for, those within max_stops and of the airlines named
UpstreamPage(url) ==
    LET leg == url.tfs.data[1]
    IN SelectSeq(UpstreamFlights,
                 LAMBDA flight :
                    /\ leg.max_stops = Undefined \/ flight.stops <= leg.max_stops
                    /\ leg.airlines = << >>
                          \/ \E i \in DOMAIN leg.airlines : leg.airlines[i] = flight.name)

\* the body of a response: a page listing flights, or one the parser throws on
FlightsPage(flights) == [kind |-> "flights", flights |-> flights]
GarbagePage == [kind |-> "garbage", flights |-> << >>]

\* the page the upstream serves for each of these calls
RequestPages == [r \in ScrapeRequests |-> FlightsPage(UpstreamPage(RequestUrls[r]))]

\* what one HTTP attempt ends with: a page of flights, a page the parser
\* throws on, or a failure of the request or of the body read
HttpOutcomes == {"flights", "garbage", "Timeout", "NavigationFailed"}

NoReturn == [tag |-> "none", cached |-> FALSE, flights |-> << >>]
Failure(reason) == [tag |-> reason, cached |-> FALSE, flights |-> << >>]
Success(flights, cached) == [tag |-> "ok", cached |-> cached, flights |-> flights]

\* the retry schedule before its first step
NoSchedule == [steps |-> 0, start |-> 0]

NoCounts == [get |-> 0, encode |-> 0, acquire |-> 0, http |-> 0, sleep |-> 0]

\* the GET history when it is not kept, and before the first GET
NoGets == << >>
GetsNone == [t \in 0..MaxTime |-> 0]

\* one more GET at instant t in a history that is kept
GetAt(history, t) == IF t \in DOMAIN history THEN [history EXCEPT ![t] = @ + 1] ELSE history

ScraperInit ==
    /\ spc = [f \in ScrapeFibers |-> "idle"]
    /\ sreq = [f \in ScrapeFibers |-> NoRequest]
    /\ skey = [f \in ScrapeFibers |-> ""]
    /\ snow = [f \in ScrapeFibers |-> 0]
    /\ swake = [f \in ScrapeFibers |-> 0]
    /\ sched = [f \in ScrapeFibers |-> NoSchedule]
    /\ sresult = [f \in ScrapeFibers |-> << >>]
    /\ sreturn = [f \in ScrapeFibers |-> NoReturn]
    /\ scount = [f \in ScrapeFibers |-> NoCounts]
    /\ scrapes = 0
    /\ storer = NoRequest

ScraperUnused == ScraperInit /\ gets = NoGets

\* --------------------------------------------------------- parseFlightsHtml
MaxContainers == 2  \* flight containers in a page
MaxItems == 2       \* `ul.Rk10dc li` items of one container

\* the text of an item's airline span: "" when the span is missing or empty
ItemNames == {"", "Unknown", "A"}

\* a flight container, div[jsname="IWWDBc"] or div[jsname="YdtKid"]: its own
\* `ul.Rk10dc li` items in document order, and whether the element lies inside
\* the container matched before it, after that container's own items
Containers == [items : UNION {[1..n -> ItemNames] : n \in 0..MaxItems}, nested : BOOLEAN]

\* the pages: the first container lies inside no other
Pages ==
    {d \in UNION {[1..n -> Containers] : n \in 0..MaxContainers} :
        Len(d) > 0 => ~d[1].nested}

\* $(container).find('ul.Rk10dc li'): every item below the container
RECURSIVE Find(_, _)
Find(doc, c) ==
    doc[c].items \o (IF c < Len(doc) /\ doc[c + 1].nested THEN Find(doc, c + 1) ELSE << >>)

\* `name = ... .text().trim() || "Unknown"`
NameOf(text) == IF text = "" THEN "Unknown" ELSE text

IsBestSection(isBestSection, itemIndex) == isBestSection

\* `is_best: isBestSection && itemIndex === 0`
IsBest(isBestSection, itemIndex) == isBestSection /\ itemIndex = 0

\* the inner .each from item number i on (itemIndex = i - 1): one flight for every
\* item whose name is not "Unknown", with the indices it was built from
RECURSIVE EachItem(_, _, _)
EachItem(found, containerIndex, i) ==
    IF i > Len(found) THEN << >>
    ELSE LET isBestSection == containerIndex = 0
             itemIndex == i - 1
             name == NameOf(found[i])
             pushed == IF name # "Unknown"
                       THEN <<[is_best |-> IsBest(isBestSection, itemIndex), name |-> name,
                               from |-> <<containerIndex, itemIndex>>]>>
                       ELSE << >>
         IN pushed \o EachItem(found, containerIndex, i + 1)

\* flightContainers.each from container number c on (containerIndex = c - 1)
RECURSIVE EachContainer(_, _)
EachContainer(doc, c) ==
    IF c > Len(doc) THEN << >>
    ELSE EachItem(Find(doc, c), c - 1, 1) \o EachContainer(doc, c + 1)

\* parseFlightsHtml(html).flights
parseFlightsHtml(doc) ==
    LET pushed == EachContainer(doc, 1)
    IN [i \in DOMAIN pushed |-> [is_best |-> pushed[i].is_best, name |-> pushed[i].name]]

\* the item each flight of parseFlightsHtml(html) was built from
ParsedFrom(doc) ==
    LET pushed == EachContainer(doc, 1)
    IN [i \in DOMAIN pushed |-> pushed[i].from]

ParseUnused ==
    /\ hdoc = << >>
    /\ hpc = "unused"
    /\ hflights = << >>
    /\ hfrom = << >>

\* ------------------------------------------------------------ rate limiter
\* requests.filter(r => r.timestamp > windowStart)
Recent(requests, windowStart) == SelectSeq(requests, LAMBDA t : t > windowStart)

AllowedOffByOne(recent) == Len(recent) <= MaxRequests

\* `recent.length >= maxRequests` rejects; its negation admits
Allowed(recent) == Len(recent) < MaxRequests

\* Math.ceil(a / b) for a positive divisor
CeilDiv(a, b) == IF a <= 0 THEN 0 - ((0 - a) \div b) ELSE (a + b - 1) \div b

\* the rejection: `oldestRequest = recent[0]`,
\* `waitTime = oldestRequest.timestamp + windowMs - now`, and the message's
\* `Math.ceil(checkResult.waitTime / 1000)` seconds
WaitTime(recent, now) == recent[1] + WindowMs - now

WaitSeconds(recent, now) == CeilDiv(WaitTime(recent, now), MsPerSecond)

RejectedRecorded(requests, now) == Append(requests, now)

\* the rejecting branch of the Ref.modify: `[{ allowed: false, waitTime }, requests]`
RejectedRequests(requests, now) == requests

LimiterInit ==
    /\ minDelay \in {0, MinDelayMs}
    /\ requestsRef = << >>
    /\ lastRequestRef = 0
    /\ lpc = [f \in Fibers |-> "idle"]
    /\ lnow = [f \in Fibers |-> 0]
    /\ lwake = [f \in Fibers |-> 0]
    /\ calls = 0
    /\ admitted = << >>
    /\ rejected = 0
    /\ lastReturn = 0
    /\ minGap = NoGap
    /\ stalled = FALSE
    /\ retryAt = 0
    /\ resetPc = "idle"
    /\ windowClean = FALSE
    /\ lastClean = FALSE
    /\ stats = NoStats

\* history: an admitted acquire() returns to its caller at the current instant
RecordReturn ==
    /\ lastReturn' = clock
    /\ minGap' = IF lastReturn = 0 THEN NoGap
                 ELSE IF minGap = NoGap THEN clock - lastReturn
                 ELSE Min(minGap, clock - lastReturn)

\* acquire(): `const now = Date.now(); const windowStart = now - windowMs`
AcquireStart(f) ==
    /\ lpc[f] = "idle"
    /\ \A g \in Fibers : g < f => lpc[g] # "idle"   \* fibers are interchangeable
    /\ calls < MaxCalls
    /\ calls' = calls + 1
    /\ lnow' = [lnow EXCEPT ![f] = clock]
    /\ lpc' = [lpc EXCEPT ![f] = "check"]
    /\ UNCHANGED <<clock, minDelay, limiterRefs, lwake, admitted, rejected,
                   lastReturn, minGap, stalled, retryAt, resetVars, nonLimiter>>

\* acquire(): the Ref.modify on requestsRef and the `if (!checkResult.allowed)`
AcquireCheck(f) ==
    /\ lpc[f] = "check"
    /\ LET windowStart == lnow[f] - WindowMs
           recent == Recent(requestsRef, windowStart)
       IN IF Allowed(recent)
          THEN /\ requestsRef' = Append(recent, lnow[f])
               /\ admitted' = Append(admitted, [ts |-> lnow[f], at |-> clock])
               /\ lpc' = [lpc EXCEPT ![f] = "spacing"]
               /\ retryAt' = 0
               /\ UNCHANGED <<rejected, lnow>>
          ELSE /\ requestsRef' = RejectedRequests(requestsRef, lnow[f])
               /\ rejected' = rejected + 1
               /\ lpc' = [lpc EXCEPT ![f] = "idle"]
               /\ lnow' = [lnow EXCEPT ![f] = 0]
               /\ retryAt' = clock + MsPerSecond * WaitSeconds(recent, lnow[f])
               /\ UNCHANGED admitted
    /\ stalled' = (stalled \/ clock > lnow[f])
    /\ windowClean' = FALSE
    /\ UNCHANGED <<clock, minDelay, lastRequestRef, lwake, calls, lastReturn, minGap,
                   resetPc, lastClean, stats, nonLimiter>>

\* acquire(): Ref.getAndSet(lastRequestRef, now) and the spacing decision
AcquireSpacing(f) ==
    /\ lpc[f] = "spacing"
    /\ LET lastRequest == lastRequestRef
           timeSinceLastRequest == lnow[f] - lastRequest
       IN /\ lastRequestRef' = lnow[f]
          /\ IF timeSinceLastRequest < minDelay /\ lastRequest > 0
             THEN /\ lwake' = [lwake EXCEPT ![f] = clock + (minDelay - timeSinceLastRequest)]
                  /\ lpc' = [lpc EXCEPT ![f] = "sleep"]
                  /\ UNCHANGED <<lastReturn, minGap>>
             ELSE /\ RecordReturn
                  /\ lpc' = [lpc EXCEPT ![f] = "idle"]
                  /\ UNCHANGED lwake
    /\ lnow' = [lnow EXCEPT ![f] = 0]
    /\ stalled' = (stalled \/ clock > lnow[f])
    /\ lastClean' = FALSE
    /\ UNCHANGED <<clock, minDelay, requestsRef, calls, admitted, rejected, retryAt,
                   resetPc, windowClean, stats, nonLimiter>>

\* acquire(): Effect.sleep(Duration.millis(waitTime)) is over, acquire returns
AcquireWake(f) ==
    /\ lpc[f] = "sleep"
    /\ clock >= lwake[f]
    /\ RecordReturn
    /\ lpc' = [lpc EXCEPT ![f] = "idle"]
    /\ lwake' = [lwake EXCEPT ![f] = 0]
    /\ UNCHANGED <<clock, minDelay, limiterRefs, lnow, calls, admitted, rejected, stalled,
                   retryAt, resetVars, nonLimiter>>

LimiterTick == Tick /\ UNCHANGED <<limiterVars, nonLimiter>>

NextLimiter ==
    \/ LimiterTick
    \/ \E f \in Fibers : AcquireStart(f)
    \/ \E f \in Fibers : AcquireCheck(f)
    \/ \E f \in Fibers : AcquireSpacing(f)
    \/ \E f \in Fibers : AcquireWake(f)

\* reset(): the value `Ref.set(requestsRef, [])` stores
ResetRequestsKept == requestsRef

ResetRequests == << >>

\* reset(): `yield* Ref.set(requestsRef, [])`
ResetWindow ==
    /\ resetPc = "idle"
    /\ requestsRef' = ResetRequests
    /\ resetPc' = "half"
    /\ windowClean' = TRUE
    /\ UNCHANGED <<clock, minDelay, lastRequestRef, limiterFibers, limiterHistory,
                   lastClean, stats, nonLimiter>>

\* reset(): `yield* Ref.set(lastRequestRef, 0)`, reset() returns
ResetLast ==
    /\ resetPc = "half"
    /\ lastRequestRef' = 0
    /\ resetPc' = "done"
    /\ lastClean' = TRUE
    /\ UNCHANGED <<clock, minDelay, requestsRef, limiterFibers, limiterHistory,
                   windowClean, stats, nonLimiter>>

\* getStats(): Ref.get(requestsRef), then `now = Date.now()` and the filter by
\* `windowStart = now - windowMs`; `requests: recentRequests.length`
GetStatsRequests(requests, now) == Len(Recent(requests, now - WindowMs))

\* the caller of reset() calls getStats() once reset() has returned
GetStats ==
    /\ resetPc = "done"
    /\ stats = NoStats
    /\ stats' = GetStatsRequests(requestsRef, clock)
    /\ UNCHANGED <<clock, minDelay, limiterRefs, limiterFibers, limiterHistory,
                   resetPc, windowClean, lastClean, nonLimiter>>

NextLimiterReset ==
    \/ LimiterTick
    \/ \E f \in ResetFibers : AcquireStart(f)
    \/ \E f \in ResetFibers : AcquireCheck(f)
    \/ \E f \in ResetFibers : AcquireSpacing(f)
    \/ \E f \in ResetFibers : AcquireWake(f)
    \/ ResetWindow
    \/ ResetLast
    \/ GetStats

\* the components a specification does not exercise stay as constructed
LimiterUnused ==
    /\ minDelay = 0
    /\ requestsRef = << >>
    /\ lastRequestRef = 0
    /\ lpc = [f \in Fibers |-> "idle"]
    /\ lnow = [f \in Fibers |-> 0]
    /\ lwake = [f \in Fibers |-> 0]
    /\ calls = 0
    /\ admitted = << >>
    /\ rejected = 0
    /\ lastReturn = 0
    /\ minGap = NoGap
    /\ stalled = FALSE
    /\ retryAt = 0
    /\ resetPc = "idle"
    /\ windowClean = FALSE
    /\ lastClean = FALSE
    /\ stats = NoStats

RetryUnused ==
    /\ script = << >>
    /\ rpc = "idle"
    /\ invocations = 0
    /\ sleeps = 0
    /\ outcome = "none"
    /\ schedSteps = 0
    /\ schedStart = 0
    /\ rwake = 0

NoGet == [key |-> "", result |-> Null, found |-> FALSE, stored |-> Null, age |-> 0,
          seen |-> FALSE]

CacheInit ==
    /\ cacheRef = << >>
    /\ cpc = [f \in CacheFibers |-> "idle"]
    /\ ckey = [f \in CacheFibers |-> ""]
    /\ cval = [f \in CacheFibers |-> Null]
    /\ cnow = [f \in CacheFibers |-> 0]
    /\ cacheOps = 0
    /\ lastGet = NoGet
    /\ lastMut = [op |-> "none", key |-> "", val |-> Null, ts |-> 0]
    /\ everSet = {}

InitLimiter ==
    clock = StartTime /\ LimiterInit /\ RetryUnused /\ CacheInit /\ PipelineUnused /\ KeyUnused
    /\ ScraperUnused /\ ParseUnused

SpecLimiter == InitLimiter /\ [][NextLimiter]_vars

\* the limiter with one caller of reset() and getStats() beside the acquirers
InitLimiterReset ==
    clock = StartTime /\ LimiterInit /\ minDelay = MinDelayMs /\ RetryUnused /\ CacheInit
    /\ PipelineUnused /\ KeyUnused /\ ScraperUnused /\ ParseUnused

SpecLimiterReset == InitLimiterReset /\ [][NextLimiterReset]_vars

\* --------------------------------------------------------- retry scheduler
\* ScraperError.reason
RetryableReasons == {"NavigationFailed", "Timeout"}
NonRetryableReasons == {"ParsingError", "InvalidInput", "RateLimitExceeded", "Unknown"}
Reasons == RetryableReasons \cup NonRetryableReasons
Outcomes == {"ok"} \cup Reasons

\* sequences of length n over S
SeqsOfLen(S, n) == [1..n -> S]

retryEverything(error) == TRUE

\* isRetryableError
isRetryableError(error) == error = "NavigationFailed" \/ error = "Timeout"

\* Schedule.exponential(initialDelay, backoffFactor): delay of step n (n = 0, 1, ...)
ExponentialDelay(n) == InitialDelay * Pow(BackoffFactor, n)

\* Schedule.either(Schedule.spaced(maxDelay)): recur while either does, after the
\* shorter of the two delays
EitherDelay(n) == Min(ExponentialDelay(n), MaxDelay)

\* Schedule.compose(Schedule.elapsed): the output becomes the time since the first step
Elapsed(now) == IF schedStart = 0 THEN 0 ELSE now - schedStart

\* Schedule.whileOutput(Duration.lessThanOrEqualTo(maxDelay))
WhileOutput(elapsed) == elapsed <= MaxDelay

\* Schedule.intersect(Schedule.recurs(maxAttempts - 1)): step n recurs while n < maxAttempts - 1
Recurs(n) == n < MaxAttempts - 1

\* one step of the policy of createRetrySchedule under Effect.retry's `while`
ScheduleContinues(now, error) ==
    /\ WhileOutput(Elapsed(now))
    /\ Recurs(schedSteps)
    /\ isRetryableError(error)

\* outcome of the wrapped operation at its i-th invocation
OutcomeAt(i) == IF i <= Len(script) THEN script[i] ELSE script[Len(script)]

RetryInit ==
    /\ script \in SeqsOfLen(Outcomes, MaxAttempts)
    /\ rpc = "idle"
    /\ invocations = 0
    /\ sleeps = 0
    /\ outcome = "none"
    /\ schedSteps = 0
    /\ schedStart = 0
    /\ rwake = 0

\* withRetry / withRetryAndLog: the wrapped effect is run for the first time
RetryBegin ==
    /\ rpc = "idle"
    /\ rpc' = "running"
    /\ invocations' = 1
    /\ UNCHANGED <<clock, script, sleeps, outcome, schedSteps, schedStart, rwake, nonRetry>>

\* the wrapped operation succeeds: Effect.retry passes the value on
OperationSucceeds ==
    /\ rpc = "running"
    /\ OutcomeAt(invocations) = "ok"
    /\ rpc' = "done"
    /\ outcome' = "ok"
    /\ UNCHANGED <<clock, script, invocations, sleeps, schedSteps, schedStart, rwake, nonRetry>>

\* the wrapped operation fails: Effect.retry steps the schedule with the error and
\* the current time, then sleeps for the delay or surfaces the error
OperationFails ==
    /\ rpc = "running"
    /\ OutcomeAt(invocations) # "ok"
    /\ LET error == OutcomeAt(invocations)
       IN IF ScheduleContinues(clock, error)
          THEN /\ rpc' = "sleeping"
               /\ rwake' = clock + EitherDelay(schedSteps)
               /\ sleeps' = sleeps + 1
               /\ UNCHANGED outcome
          ELSE /\ rpc' = "done"
               /\ outcome' = error
               /\ UNCHANGED <<rwake, sleeps>>
    /\ schedSteps' = schedSteps + 1
    /\ schedStart' = IF schedStart = 0 THEN clock ELSE schedStart
    /\ UNCHANGED <<clock, script, invocations, nonRetry>>

\* the backoff sleep is over: the wrapped operation is invoked again
RetryWake ==
    /\ rpc = "sleeping"
    /\ clock >= rwake
    /\ rpc' = "running"
    /\ invocations' = invocations + 1
    /\ UNCHANGED <<clock, script, sleeps, outcome, schedSteps, schedStart, rwake, nonRetry>>

RetryTick == Tick /\ UNCHANGED <<retryVars, nonRetry>>

NextRetry ==
    \/ RetryTick
    \/ RetryBegin
    \/ OperationSucceeds
    \/ OperationFails
    \/ RetryWake

InitRetry ==
    clock = StartTime /\ RetryInit /\ LimiterUnused /\ CacheInit /\ PipelineUnused /\ KeyUnused
    /\ ScraperUnused /\ ParseUnused

SpecRetry == InitRetry /\ [][NextRetry]_vars

\* ------------------------------------------------------------------ cache
\* Map.has / Map.get
Has(m, k) == \E i \in DOMAIN m : m[i].key = k
Entry(m, k) == m[CHOOSE i \in DOMAIN m : m[i].key = k]
KeysOf(m) == {m[i].key : i \in DOMAIN m}

\* Map.delete
MapDelete(m, k) == SelectSeq(m, LAMBDA e : e.key # k)

MapSetClobber(m, k, e) == <<e>>

\* Map.set: an existing key keeps its place in the iteration order
MapSet(m, k, e) ==
    IF Has(m, k) THEN [i \in DOMAIN m |-> IF m[i].key = k THEN e ELSE m[i]]
    ELSE Append(m, e)

\* the scan `for (const [k, v] of next.entries()) if (v.timestamp < oldestTime)`:
\* index of the first entry with the smallest timestamp (0: the map is empty)
OldestIndex(m) ==
    IF m = << >> THEN 0
    ELSE CHOOSE i \in DOMAIN m :
            /\ \A j \in DOMAIN m : m[i].timestamp <= m[j].timestamp
            /\ \A j \in 1..(i - 1) : m[j].timestamp > m[i].timestamp

\* JavaScript truthiness of `oldestKey` (string | null): null and "" are falsy
Truthy(i, m) == i # 0 /\ m[i].key # ""

\* set(): `if (next.size >= maxSize) { ...; if (oldestKey) next.delete(oldestKey) }`
Evict(m) ==
    IF Len(m) >= MaxSize
    THEN LET i == OldestIndex(m)
         IN IF Truthy(i, m) THEN MapDelete(m, m[i].key) ELSE m
    ELSE m

\* set(): the function given to Ref.update
SetFn(m, k, v, now) == MapSet(Evict(m), k, [key |-> k, data |-> v, timestamp |-> now])

ExpiredAtTtl(now, timestamp) == now - timestamp >= Ttl

\* get(): `now - entry.timestamp > ttl`
Expired(now, timestamp) == now - timestamp > Ttl

\* get(): what the call returns when it reads map m at instant now
GetResult(m, k, now) ==
    IF ~Has(m, k) THEN Null
    ELSE IF Expired(now, Entry(m, k).timestamp) THEN Null
    ELSE Entry(m, k).data

\* fibers are interchangeable: a new call is started by the first idle one
LeastIdle(f) == \A g \in CacheFibers : g < f => cpc[g] # "idle"

\* history: the get(k) that reads the map now
RecordGet(k) ==
    lastGet' = [key |-> k,
                result |-> GetResult(cacheRef, k, clock),
                found |-> Has(cacheRef, k),
                stored |-> IF Has(cacheRef, k) THEN Entry(cacheRef, k).data ELSE Null,
                age |-> IF Has(cacheRef, k) THEN clock - Entry(cacheRef, k).timestamp ELSE 0,
                seen |-> TRUE]

\* get(): Ref.get(cacheRef), cache.get(key), Date.now() and the expiry test; the
\* call returns here unless the entry is expired
GetRead(f, k) ==
    /\ cpc[f] = "idle"
    /\ LeastIdle(f)
    /\ cacheOps < MaxCacheOps
    /\ cacheOps' = cacheOps + 1
    /\ RecordGet(k)
    /\ IF Has(cacheRef, k) /\ Expired(clock, Entry(cacheRef, k).timestamp)
       THEN /\ cpc' = [cpc EXCEPT ![f] = "remove"]
            /\ ckey' = [ckey EXCEPT ![f] = k]
       ELSE UNCHANGED <<cpc, ckey>>
    /\ UNCHANGED <<clock, cacheRef, cval, cnow, lastMut, everSet, nonCache>>

\* get(): the Ref.update that deletes the key, then `return null`
GetRemove(f) ==
    /\ cpc[f] = "remove"
    /\ cacheRef' = MapDelete(cacheRef, ckey[f])
    /\ cpc' = [cpc EXCEPT ![f] = "idle"]
    /\ ckey' = [ckey EXCEPT ![f] = ""]
    /\ UNCHANGED <<clock, cval, cnow, cacheOps, lastGet, lastMut, everSet, nonCache>>

\* the data of the set() call that starts now
FreshResult == cacheOps + 1

\* set(): `const now = Date.now()`
SetStart(f, k, v) ==
    /\ cpc[f] = "idle"
    /\ LeastIdle(f)
    /\ cacheOps < MaxCacheOps
    /\ cacheOps' = cacheOps + 1
    /\ cpc' = [cpc EXCEPT ![f] = "update"]
    /\ ckey' = [ckey EXCEPT ![f] = k]
    /\ cval' = [cval EXCEPT ![f] = v]
    /\ cnow' = [cnow EXCEPT ![f] = clock]
    /\ lastGet' = NoGet
    /\ UNCHANGED <<clock, cacheRef, lastMut, everSet, nonCache>>

\* set(): the Ref.update
SetUpdate(f) ==
    /\ cpc[f] = "update"
    /\ cacheRef' = SetFn(cacheRef, ckey[f], cval[f], cnow[f])
    /\ lastMut' = [op |-> "set", key |-> ckey[f], val |-> cval[f], ts |-> cnow[f]]
    /\ everSet' = everSet \cup {ckey[f]}
    /\ cpc' = [cpc EXCEPT ![f] = "idle"]
    /\ ckey' = [ckey EXCEPT ![f] = ""]
    /\ cval' = [cval EXCEPT ![f] = Null]
    /\ cnow' = [cnow EXCEPT ![f] = 0]
    /\ lastGet' = NoGet
    /\ UNCHANGED <<clock, cacheOps, nonCache>>

\* clear(): Ref.set(cacheRef, new Map())
Clear(f) ==
    /\ cpc[f] = "idle"
    /\ LeastIdle(f)
    /\ cacheOps < MaxCacheOps
    /\ cacheOps' = cacheOps + 1
    /\ cacheRef' = << >>
    /\ lastMut' = [op |-> "clear", key |-> "", val |-> Null, ts |-> 0]
    /\ lastGet' = NoGet
    /\ UNCHANGED <<clock, cacheFibers, everSet, nonCache>>

\* size(): cache.size
Size == Len(cacheRef)

CacheTick == Tick /\ UNCHANGED <<cacheVars, nonCache>>

NextCache ==
    \/ CacheTick
    \/ \E f \in CacheFibers, k \in Keys : GetRead(f, k)
    \/ \E f \in CacheFibers : GetRemove(f)
    \/ \E f \in CacheFibers, k \in Keys : SetStart(f, k, FreshResult)
    \/ \E f \in CacheFibers : SetUpdate(f)
    \/ \E f \in CacheFibers : Clear(f)

InitCache ==
    clock = StartTime /\ CacheInit /\ LimiterUnused /\ RetryUnused /\ PipelineUnused /\ KeyUnused
    /\ ScraperUnused /\ ParseUnused

SpecCache == InitCache /\ [][NextCache]_vars

\* ------------------------------------------- filter/sort/limit pipeline run
PipelineInit ==
    /\ pflights \in FlightLists
    /\ pfilters \in FilterChoices
    /\ psort \in SortOptions
    /\ ppc = "ready"
    /\ pfiltered = << >>
    /\ psorted = << >>
    /\ presult = << >>

\* one call applyFiltersAndSort(result, filters, sortOption), with the values of
\* its `filtered` and `sorted` locals
ApplyFiltersAndSort ==
    /\ ppc = "ready"
    /\ ppc' = "done"
    /\ pfiltered' = filterFlights(pflights, pfilters)
    /\ psorted' = sortFlights(pfiltered', psort)
    /\ presult' = applyFiltersAndSort(pflights, pfilters, psort)
    /\ UNCHANGED <<clock, pflights, pfilters, psort, nonPipeline>>

NextPipeline == ApplyFiltersAndSort

InitPipeline ==
    clock = StartTime /\ PipelineInit /\ LimiterUnused /\ RetryUnused /\ CacheInit /\ KeyUnused
    /\ ScraperUnused /\ ParseUnused

SpecPipeline == InitPipeline /\ [][NextPipeline]_vars

\* ------------------------------------------------------------ cache key calls
KeyInit ==
    /\ kparams \in BaseParams \X SearchParams
    /\ kkeys = << >>

\* two calls of createCacheKey
CreateCacheKeys ==
    /\ kkeys = << >>
    /\ kkeys' = <<KeyOf(kparams[1]), KeyOf(kparams[2])>>
    /\ UNCHANGED <<clock, kparams, nonKey>>

NextKey == CreateCacheKeys

InitKey ==
    clock = StartTime /\ KeyInit /\ LimiterUnused /\ RetryUnused /\ CacheInit /\ PipelineUnused
    /\ ScraperUnused /\ ParseUnused

SpecKey == InitKey /\ [][NextKey]_vars

\* -------------------------------------------------- parseFlightsHtml call
ParseInit ==
    /\ hdoc \in Pages
    /\ hpc = "ready"
    /\ hflights = << >>
    /\ hfrom = << >>

\* one call parseFlightsHtml(html)
ParseFlightsHtml ==
    /\ hpc = "ready"
    /\ hpc' = "done"
    /\ hflights' = parseFlightsHtml(hdoc)
    /\ hfrom' = ParsedFrom(hdoc)
    /\ UNCHANGED <<clock, hdoc, nonParse>>

NextParse == ParseFlightsHtml

InitParse ==
    clock = StartTime /\ ParseInit /\ LimiterUnused /\ RetryUnused /\ CacheInit /\ PipelineUnused
    /\ KeyUnused /\ ScraperUnused

SpecParse == InitParse /\ [][NextParse]_vars

\* ------------------------------------------------- ScraperProductionLive
\* the state outside the scraper's reach
scraperFrame == <<minDelay, limiterFibers, limiterHistory, resetVars, retryVars,
                  cacheFibers, cacheHistory, pipelineVars, keyVars, parseVars>>

Count1(f, field) == [scount EXCEPT ![f][field] = @ + 1]

StoredPresented(result, filters, sortOption) ==
    applyFiltersAndSort(result, filters, sortOption)

\* `cache.set(cacheKey, result)`: the value handed to the cache
StoredResult(result, filters, sortOption) == result

RejectedRetries == "backoff"

RejectedStores == "set"

\* where a scrape goes when acquire() fails: the failure leaves fetchFlightsHtml,
\* acquire() is not inside withRetryAndLog
RejectedNext == "done"

\* one step of the retry policy on the schedule state of one fetch
ContinuesFrom(s, now, error) ==
    /\ WhileOutput(IF s.start = 0 THEN 0 ELSE now - s.start)
    /\ Recurs(s.steps)
    /\ isRetryableError(error)

\* extractFlightsFromHtml: the parser throws on a page it does not understand
Parses(html) == html.kind = "flights"

extractFlightsFromHtml(html) == html.flights

\* the body an attempt that ends with outcome o hands to the parser
BodyOf(r, o) == IF o = "flights" THEN RequestPages[r] ELSE GarbagePage

HitFetches == "encode"

\* where a scrape goes when cache.get returns an entry: `return
\* applyFiltersAndSort(cached, filters, sortOption)`
HitReturns == "done"

SortedInPlace(flights, filters, sortOption) == sortFlights(flights, sortOption)

\* the array `result.flights` after applyFiltersAndSort(result, ...): filter
\* builds a new array, sortFlights sorts a copy, slice builds a new array
InputAfter(flights, filters, sortOption) == flights

\* the map with the data of the entry under k replaced
MapWithData(m, k, data) ==
    [i \in DOMAIN m |-> IF m[i].key = k THEN [m[i] EXCEPT !.data = data] ELSE m[i]]

\* scrape(): validation, defaults, createCacheKey and cache.get up to its
\* Ref.get; a fresh entry is returned through applyFiltersAndSort, which is
\* handed the very object the cache entry holds
ScrapeBegin(f, r) ==
    /\ spc[f] \in {"idle", "done"}
    /\ \A g \in ScrapeFibers : g < f => spc[g] # "idle"
    /\ scrapes < MaxScrapes
    /\ scrapes' = scrapes + 1
    /\ sreq' = [sreq EXCEPT ![f] = r]
    /\ IF MissingReturnDate(r.tripType, r.returnDate)
       THEN /\ sreturn' = [sreturn EXCEPT ![f] = Failure("InvalidInput")]
            /\ spc' = [spc EXCEPT ![f] = "done"]
            /\ sresult' = [sresult EXCEPT ![f] = << >>]
            /\ scount' = [scount EXCEPT ![f] = NoCounts]
            /\ skey' = [skey EXCEPT ![f] = ""]
       ELSE LET cacheKey == RequestKeys[r]
            IN /\ scount' = [scount EXCEPT ![f] = [NoCounts EXCEPT !.get = 1]]
               /\ skey' = [skey EXCEPT ![f] = cacheKey]
               /\ IF ~Has(cacheRef, cacheKey)
                  THEN /\ spc' = [spc EXCEPT ![f] = "encode"]
                       /\ sresult' = [sresult EXCEPT ![f] = << >>]
                       /\ sreturn' = [sreturn EXCEPT ![f] = NoReturn]
                  ELSE IF Expired(clock, Entry(cacheRef, cacheKey).timestamp)
                  THEN /\ spc' = [spc EXCEPT ![f] = "remove"]
                       /\ sresult' = [sresult EXCEPT ![f] = << >>]
                       /\ sreturn' = [sreturn EXCEPT ![f] = NoReturn]
                  ELSE LET cached == Entry(cacheRef, cacheKey).data
                       IN /\ sresult' = [sresult EXCEPT ![f] = cached]
                          /\ sreturn' = [sreturn EXCEPT ![f] =
                                 Success(applyFiltersAndSort(cached, r.filters, r.sortOption),
                                         TRUE)]
                          /\ spc' = [spc EXCEPT ![f] = HitReturns]
    /\ cacheRef' =
          IF /\ ~MissingReturnDate(r.tripType, r.returnDate)
             /\ Has(cacheRef, RequestKeys[r])
             /\ ~Expired(clock, Entry(cacheRef, RequestKeys[r]).timestamp)
          THEN MapWithData(cacheRef, RequestKeys[r],
                           InputAfter(Entry(cacheRef, RequestKeys[r]).data, r.filters,
                                      r.sortOption))
          ELSE cacheRef
    /\ UNCHANGED <<clock, limiterRefs, snow, swake, sched, gets, storer, scraperFrame>>

\* cache.get: the Ref.update that deletes the expired key; get returns null
ScrapeRemove(f) ==
    /\ spc[f] = "remove"
    /\ cacheRef' = MapDelete(cacheRef, skey[f])
    /\ spc' = [spc EXCEPT ![f] = "encode"]
    /\ UNCHANGED <<clock, limiterRefs, sreq, snow, swake, sched, sresult, sreturn, scount,
                   gets, scrapes, storer, skey, scraperFrame>>

\* encodeFlightSearch and the URL, then fetchFlightsHtml up to acquire()'s
\* `const now = Date.now()`; what the Effect.try of encodeFlightSearch catches
\* fails the scrape with ParsingError
ScrapeEncode(f, thrown) ==
    /\ spc[f] = "encode"
    /\ IF thrown
       THEN /\ scount' = Count1(f, "encode")
            /\ sreturn' = [sreturn EXCEPT ![f] = Failure("ParsingError")]
            /\ spc' = [spc EXCEPT ![f] = "done"]
            /\ UNCHANGED snow
       ELSE /\ scount' = [scount EXCEPT ![f].encode = @ + 1, ![f].acquire = @ + 1]
            /\ snow' = [snow EXCEPT ![f] = clock]
            /\ spc' = [spc EXCEPT ![f] = "check"]
            /\ UNCHANGED sreturn
    /\ UNCHANGED <<clock, limiterRefs, cacheRef, sreq, swake, sched, sresult,
                   gets, scrapes, storer, skey, scraperFrame>>

\* acquire(): the Ref.modify; a rejection fails the scrape with RateLimitExceeded
ScrapeAcquire(f) ==
    /\ spc[f] = "check"
    /\ LET recent == Recent(requestsRef, snow[f] - WindowMs)
       IN IF Allowed(recent)
          THEN /\ requestsRef' = Append(recent, snow[f])
               /\ spc' = [spc EXCEPT ![f] = "spacing"]
               /\ UNCHANGED <<sreturn, snow>>
          ELSE /\ requestsRef' = RejectedRequests(requestsRef, snow[f])
               /\ sreturn' = [sreturn EXCEPT ![f] = Failure("RateLimitExceeded")]
               /\ spc' = [spc EXCEPT ![f] = RejectedNext]
               /\ snow' = [snow EXCEPT ![f] = 0]
    /\ UNCHANGED <<clock, lastRequestRef, cacheRef, sreq, swake, sched, sresult, scount,
                   gets, scrapes, storer, skey, scraperFrame>>

\* acquire(): Ref.getAndSet(lastRequestRef, now) and the spacing sleep
ScrapeSpacing(f) ==
    /\ spc[f] = "spacing"
    /\ LET lastRequest == lastRequestRef
           timeSinceLastRequest == snow[f] - lastRequest
       IN /\ lastRequestRef' = snow[f]
          /\ IF timeSinceLastRequest < minDelay /\ lastRequest > 0
             THEN /\ swake' = [swake EXCEPT ![f] = clock + (minDelay - timeSinceLastRequest)]
                  /\ spc' = [spc EXCEPT ![f] = "spaced"]
             ELSE /\ spc' = [spc EXCEPT ![f] = "fetch"]
                  /\ UNCHANGED swake
    /\ snow' = [snow EXCEPT ![f] = 0]
    /\ UNCHANGED <<clock, requestsRef, cacheRef, sreq, sched, sresult, sreturn, scount,
                   gets, scrapes, storer, skey, scraperFrame>>

\* acquire(): the spacing sleep is over, acquire() returns
ScrapeSpaced(f) ==
    /\ spc[f] = "spaced"
    /\ clock >= swake[f]
    /\ spc' = [spc EXCEPT ![f] = "fetch"]
    /\ swake' = [swake EXCEPT ![f] = 0]
    /\ UNCHANGED <<clock, limiterRefs, cacheRef, sreq, snow, sched, sresult, sreturn,
                   scount, gets, scrapes, storer, skey, scraperFrame>>

\* withRetryAndLog: the wrapped effect runs, `client.get(url, ...)` is sent
ScrapeHttpGet(f) ==
    /\ spc[f] = "fetch"
    /\ gets' = GetAt(gets, clock)
    /\ scount' = Count1(f, "http")
    /\ spc' = [spc EXCEPT ![f] = "await"]
    /\ UNCHANGED <<clock, limiterRefs, cacheRef, sreq, snow, swake, sched, sresult,
                   sreturn, scrapes, storer, skey, scraperFrame>>

\* the attempt ends.  A body goes to extractFlightsFromHtml and, parsed, to
\* cache.set up to its `const now = Date.now()`; a Timeout or NavigationFailed
\* steps the retry schedule, which sleeps or surfaces the error
ScrapeResponse(f, o) ==
    /\ spc[f] = "await"
    /\ IF o \in Reasons
       THEN /\ IF ContinuesFrom(sched[f], clock, o)
               THEN /\ spc' = [spc EXCEPT ![f] = "backoff"]
                    /\ swake' = [swake EXCEPT ![f] = clock + EitherDelay(sched[f].steps)]
                    /\ scount' = Count1(f, "sleep")
                    /\ sched' = [sched EXCEPT ![f] =
                           [steps |-> @.steps + 1,
                            start |-> IF @.start = 0 THEN clock ELSE @.start]]
                    /\ UNCHANGED sreturn
               ELSE /\ spc' = [spc EXCEPT ![f] = "done"]
                    /\ sreturn' = [sreturn EXCEPT ![f] = Failure(o)]
                    /\ sched' = [sched EXCEPT ![f] = NoSchedule]
                    /\ UNCHANGED <<swake, scount>>
            /\ UNCHANGED <<sresult, snow>>
       ELSE IF Parses(BodyOf(sreq[f], o))
       THEN /\ sresult' = [sresult EXCEPT ![f] = extractFlightsFromHtml(BodyOf(sreq[f], o))]
            /\ snow' = [snow EXCEPT ![f] = clock]
            /\ spc' = [spc EXCEPT ![f] = "set"]
            /\ sched' = [sched EXCEPT ![f] = NoSchedule]
            /\ UNCHANGED <<swake, scount, sreturn>>
       ELSE /\ sreturn' = [sreturn EXCEPT ![f] = Failure("ParsingError")]
            /\ spc' = [spc EXCEPT ![f] = "done"]
            /\ sched' = [sched EXCEPT ![f] = NoSchedule]
            /\ UNCHANGED <<swake, scount, sresult, snow>>
    /\ UNCHANGED <<clock, limiterRefs, cacheRef, sreq, gets, scrapes, storer, skey, scraperFrame>>

\* withRetryAndLog: the backoff sleep is over, the wrapped effect runs again
ScrapeBackoff(f) ==
    /\ spc[f] = "backoff"
    /\ clock >= swake[f]
    /\ spc' = [spc EXCEPT ![f] = "fetch"]
    /\ swake' = [swake EXCEPT ![f] = 0]
    /\ UNCHANGED <<clock, limiterRefs, cacheRef, sreq, snow, sched, sresult, sreturn,
                   scount, gets, scrapes, storer, skey, scraperFrame>>

\* cache.set: the Ref.update, then `return applyFiltersAndSort(result, ...)`
ScrapeSet(f) ==
    /\ spc[f] = "set"
    /\ LET r == sreq[f]
           stored == StoredResult(sresult[f], r.filters, r.sortOption)
       IN /\ cacheRef' = SetFn(cacheRef, skey[f],
                               InputAfter(stored, r.filters, r.sortOption), snow[f])
          /\ storer' = r
          /\ sreturn' = [sreturn EXCEPT ![f] =
                 Success(applyFiltersAndSort(sresult[f], r.filters, r.sortOption), FALSE)]
    /\ spc' = [spc EXCEPT ![f] = "done"]
    /\ snow' = [snow EXCEPT ![f] = 0]
    /\ UNCHANGED <<clock, limiterRefs, sreq, swake, sched, sresult, scount, gets, scrapes, skey,
                   scraperFrame>>

ScraperTick == Tick /\ UNCHANGED <<nonParse, parseVars>>

NextScraper ==
    \/ ScraperTick
    \/ \E f \in ScrapeFibers, r \in ScrapeRequests : ScrapeBegin(f, r)
    \/ \E f \in ScrapeFibers : ScrapeRemove(f)
    \/ \E f \in ScrapeFibers, thrown \in BOOLEAN : ScrapeEncode(f, thrown)
    \/ \E f \in ScrapeFibers : ScrapeAcquire(f)
    \/ \E f \in ScrapeFibers : ScrapeSpacing(f)
    \/ \E f \in ScrapeFibers : ScrapeSpaced(f)
    \/ \E f \in ScrapeFibers : ScrapeHttpGet(f)
    \/ \E f \in ScrapeFibers, o \in HttpOutcomes : ScrapeResponse(f, o)
    \/ \E f \in ScrapeFibers : ScrapeBackoff(f)
    \/ \E f \in ScrapeFibers : ScrapeSet(f)

InitScraper ==
    /\ clock = StartTime
    /\ LimiterInit /\ minDelay = MinDelayMs
    /\ RetryUnused /\ CacheInit /\ PipelineUnused /\ KeyUnused /\ ScraperUnused /\ ParseUnused

SpecScraper == InitScraper /\ [][NextScraper]_vars

\* the scraper with the history of its HTTP GETs kept
InitScraperGets ==
    /\ clock = StartTime
    /\ LimiterInit /\ minDelay = MinDelayMs
    /\ RetryUnused /\ CacheInit /\ PipelineUnused /\ KeyUnused /\ ScraperInit /\ ParseUnused
    /\ gets = GetsNone

SpecScraperGets == InitScraperGets /\ [][NextScraper]_vars

\* ------------------------------------------------------- rate limiter claims
\* every started acquire() has passed its Ref.modify
NoCheckPending == \A f \in Fibers : lpc[f] # "check"

\* all clock reads so far lie within one window of the first possible one
InOneWindow == clock - StartTime < WindowMs

\* admitted acquires whose Ref.modify ran in the interval (t - windowMs, t]
AdmittedDuring(t) ==
    {i \in DOMAIN admitted : admitted[i].at > t - WindowMs /\ admitted[i].at <= t}

\* earlier admitted acquires whose timestamp lies in the trailing window of the i-th
InTrailingWindow(i) ==
    {j \in 1..(i - 1) : /\ admitted[j].ts > admitted[i].ts - WindowMs
                        /\ admitted[j].ts <= admitted[i].ts}

\* C1: with minDelay = 0, when N > maxRequests acquire() calls have run inside one
\* window, whatever their interleaving, exactly maxRequests of them were admitted
\* and the other N - maxRequests failed with RateLimitExceeded.
C1_ExactlyKAdmitted ==
    (minDelay = 0 /\ InOneWindow /\ NoCheckPending /\ calls > MaxRequests)
        => (Len(admitted) = MaxRequests /\ rejected = calls - MaxRequests)

\* C1 witness: more calls than the limit, decided in one window, one of them with
\* a clock read older than its Ref.modify (another fiber ran in between)
C1_Witness ==
    /\ minDelay = 0 /\ InOneWindow /\ NoCheckPending /\ calls > MaxRequests
    /\ Len(admitted) = MaxRequests /\ rejected = calls - MaxRequests
    /\ \E i \in DOMAIN admitted : admitted[i].at > admitted[i].ts

\* C2: in any time interval of length windowMs at most maxRequests acquires are
\* admitted, and an acquire is admitted only if fewer than maxRequests admitted
\* requests lie within its trailing window.
C2_SlidingWindowBound ==
    /\ \A t \in StartTime..MaxTime : Cardinality(AdmittedDuring(t)) <= MaxRequests
    /\ \A i \in DOMAIN admitted : Cardinality(InTrailingWindow(i)) < MaxRequests

\* C3: with minDelay > 0, any two admitted acquire() calls return to their callers
\* at instants at least minDelay apart (stated here for the runs in which no fiber
\* was descheduled between its clock read and its Ref operations, where the claim
\* leaves no room for a timing excuse).
C3_MinSpacing ==
    (minDelay > 0 /\ ~stalled /\ minGap # NoGap) => minGap >= minDelay

\* ---------------------------------------------------- retry scheduler claims
AlwaysRetryable == \A i \in 1..MaxAttempts : script[i] \in RetryableReasons

SucceedsOnLast ==
    /\ \A i \in 1..(MaxAttempts - 1) : script[i] \in RetryableReasons
    /\ script[MaxAttempts] = "ok"

\* C4: an operation that fails with NavigationFailed or Timeout on every invocation
\* is invoked exactly maxAttempts times, however long invocations and sleeps last,
\* and only then is the last failure surfaced.
C4_ExactlyMaxAttempts ==
    (rpc = "done" /\ AlwaysRetryable)
        => (invocations = MaxAttempts /\ outcome = script[MaxAttempts])

\* C5: an operation that fails with a retryable reason on its first maxAttempts - 1
\* invocations and succeeds on invocation number maxAttempts returns that success.
C5_SucceedsOnLastAttempt ==
    (rpc = "done" /\ SucceedsOnLast) => outcome = "ok"

\* C6: an operation that fails with a non-retryable reason is invoked exactly once
\* and that failure is propagated without any backoff sleep.
C6_NonRetryableOnce ==
    (rpc # "idle" /\ script[1] \in NonRetryableReasons)
        => /\ invocations = 1
           /\ sleeps = 0
           /\ rpc \in {"running", "done"}
           /\ rpc = "done" => outcome = script[1]

\* C6 witness: a ParsingError of the first invocation has been surfaced
C6_Witness ==
    /\ rpc = "done" /\ script[1] = "ParsingError" /\ outcome = "ParsingError"
    /\ invocations = 1 /\ sleeps = 0

\* ------------------------------------------------------------ cache claims
\* fiber f completes the Ref.update of its set() in this step
SetStep(f) == cpc[f] = "update" /\ cpc'[f] = "idle"

\* fiber f completes its removal of an expired entry in this step
RemoveStep(f) == cpc[f] = "remove" /\ cpc'[f] = "idle"

\* C7: set(key, v) followed by get(key), with no intervening set/clear and before
\* the TTL elapses, returns v; get of a key never set returns null.
C7_SetThenGet ==
    /\ \A k \in Keys :
          (lastMut.op = "set" /\ lastMut.key = k /\ clock - lastMut.ts <= Ttl)
              => GetResult(cacheRef, k, clock) = lastMut.val
    /\ \A k \in Keys \ everSet : GetResult(cacheRef, k, clock) = Null

\* what get() returned is the stored value exactly when the entry's age is within ttl
GetReturnsByAge ==
    lastGet.seen =>
        lastGet.result = IF lastGet.found /\ lastGet.age <= Ttl THEN lastGet.stored ELSE Null

\* once a get() of an expired entry has completed, the key is not held, and the
\* map is one entry smaller when the key was still held
RemovalRemoves ==
    \A f \in CacheFibers :
        RemoveStep(f) =>
            /\ ~Has(cacheRef', ckey[f])
            /\ Has(cacheRef, ckey[f]) => Len(cacheRef') = Len(cacheRef) - 1
            /\ \A k \in KeysOf(cacheRef) \ {ckey[f]} :
                  Has(cacheRef', k) /\ Entry(cacheRef', k) = Entry(cacheRef, k)

\* C8: get(key) returns the stored value exactly when the entry's age (now -
\* creation timestamp) does not exceed ttl; for an older entry get returns null
\* and, once that get has completed, the key is no longer held in the cache.
C8_TtlEviction == [](GetReturnsByAge) /\ [][RemovalRemoves]_vars

\* C8 witness: a get() found an entry older than ttl, returned null and removed it
C8_Witness ==
    /\ lastGet.seen /\ lastGet.found
    /\ lastGet.age > Ttl /\ lastGet.result = Null
    /\ ~Has(cacheRef, lastGet.key)
    /\ \A f \in CacheFibers : cpc[f] = "idle"

\* set() of a new key on a map of exactly maxSize entries removes one entry of
\* smallest timestamp and leaves every other entry as it was
EvictsExactlyOldest ==
    \A f \in CacheFibers :
        (SetStep(f) /\ Len(cacheRef) = MaxSize /\ ~Has(cacheRef, ckey[f])) =>
            \E i \in DOMAIN cacheRef :
                /\ \A j \in DOMAIN cacheRef : cacheRef[i].timestamp <= cacheRef[j].timestamp
                /\ KeysOf(cacheRef') = (KeysOf(cacheRef) \ {cacheRef[i].key}) \cup {ckey[f]}
                /\ \A j \in DOMAIN cacheRef \ {i} :
                      Entry(cacheRef', cacheRef[j].key) = cacheRef[j]
                /\ Entry(cacheRef', ckey[f]).timestamp = cnow[f]

\* a step that is no set() leaves the timestamp of every entry it keeps
TimestampsFixed ==
    (\A f \in CacheFibers : ~SetStep(f)) =>
        \A k \in KeysOf(cacheRef') :
            Has(cacheRef, k) /\ Entry(cacheRef', k).timestamp = Entry(cacheRef, k).timestamp

\* C9: set(key, v) on a cache that holds maxSize entries, key not among them,
\* removes exactly one entry, the one with the smallest creation timestamp, and no
\* other; creation timestamps are fixed at set time and not refreshed by get.
C9_CapacityEviction == [][EvictsExactlyOldest /\ TimestampsFixed]_vars

\* the Ref.update of a set() stores its own value, loses no entry while the map is
\* below maxSize, and never removes more than one entry
SetIsAtomic ==
    \A f \in CacheFibers :
        SetStep(f) =>
            /\ Has(cacheRef', ckey[f])
            /\ Entry(cacheRef', ckey[f]).data = cval[f]
            /\ Len(cacheRef) < MaxSize =>
                  \A k \in KeysOf(cacheRef) \ {ckey[f]} :
                      Has(cacheRef', k) /\ Entry(cacheRef', k) = Entry(cacheRef, k)
            /\ Cardinality(KeysOf(cacheRef) \ KeysOf(cacheRef')) <= 1

\* C10: under every interleaving of concurrent set() calls on distinct keys (entries
\* staying below maxSize) no set is lost: every written key is present afterwards
\* with its own value; concurrent set() calls at capacity never evict more entries
\* than the number of inserts.
C10_AtomicSets == [][SetIsAtomic]_vars

\* C10 witness: two set() calls overlapped (the one that read the clock first was
\* applied last) and both keys are held, each with its own value
C10_Witness ==
    /\ Len(cacheRef) = 2
    /\ cacheRef[1].timestamp > cacheRef[2].timestamp
    /\ cacheRef[1].key # cacheRef[2].key
    /\ cacheRef[1].data # cacheRef[2].data
    /\ \A f \in CacheFibers : cpc[f] = "idle"

\* ----------------------------------------------------------- pipeline claims
\* the first n elements of s (all of s when it is shorter)
FirstN(s, n) == [i \in 1..(IF n < Len(s) THEN n ELSE Len(s)) |-> s[i]]

\* C16: applyFiltersAndSort applies filter, then sort, then limit: its flight
\* list is the first N elements of sortFlights(filterFlights(flights, filters),
\* sortOption) for a numeric limit N, and the whole sorted list when limit is
\* "all" or absent.
C16_FilterSortLimit ==
    ppc = "done" =>
        LET sorted == sortFlights(filterFlights(pflights, pfilters), psort)
        IN presult = IF pfilters.limit \in {Undefined, All}
                     THEN sorted
                     ELSE FirstN(sorted, pfilters.limit)

\* C16 witness: a call whose filter drops a flight, whose sort reorders the
\* rest and whose numeric limit cuts the sorted list
C16_Witness ==
    /\ ppc = "done"
    /\ pfilters.limit \notin {Undefined, All}
    /\ Len(pfiltered) < Len(pflights)
    /\ psorted # pfiltered
    /\ Len(presult) < Len(psorted)
    /\ presult # FirstN(pfiltered, pfilters.limit)

\* a supplied criterion is one the flight meets
Satisfies(flight, filters) ==
    /\ filters.maxPrice # Undefined => parsePriceToNumber(flight.price) <= filters.maxPrice
    /\ filters.minPrice # Undefined => parsePriceToNumber(flight.price) >= filters.minPrice
    /\ filters.maxDurationMinutes # Undefined =>
           parseDurationToMinutes(flight.duration) <= filters.maxDurationMinutes
    /\ filters.airlines # << >> =>
           \E i \in DOMAIN filters.airlines :
               includes(toLowerCase(flight.name), toLowerCase(filters.airlines[i]))
    /\ filters.nonstopOnly => flight.stops = 0
    /\ filters.max_stops # Undefined => flight.stops <= filters.max_stops

\* the flight's price is not a number
Unparseable(flight) == parsePriceToNumber(flight.price) = Infinity

\* the filters with the price criteria taken out
WithoutPrice(filters) == [filters EXCEPT !.maxPrice = Undefined, !.minPrice = Undefined]

\* C17: filterFlights keeps a flight if and only if it satisfies every supplied
\* criterion; a flight whose price is unparseable is excluded by every maxPrice
\* filter and kept by every minPrice filter.
C17_ConjunctiveFilter ==
    ppc = "done" =>
        /\ pfiltered = SelectSeq(pflights, LAMBDA flight : Satisfies(flight, pfilters))
        /\ \A i \in DOMAIN pflights :
              Unparseable(pflights[i]) =>
                  /\ pfilters.maxPrice # Undefined =>
                         \A j \in DOMAIN pfiltered : pfiltered[j] # pflights[i]
                  /\ (pfilters.maxPrice = Undefined
                         /\ Satisfies(pflights[i], WithoutPrice(pfilters))) =>
                         \E j \in DOMAIN pfiltered : pfiltered[j] = pflights[i]

\* C17 witness: a minPrice filter that keeps an unparseable price and drops a
\* cheaper flight
C17_Witness ==
    /\ ppc = "done"
    /\ pfilters.minPrice # Undefined
    /\ \E j \in DOMAIN pfiltered : Unparseable(pfiltered[j])
    /\ \E j \in DOMAIN pfiltered : ~Unparseable(pfiltered[j])
    /\ Len(pfiltered) < Len(pflights)

\* number of occurrences of x in s
Count(s, x) == Cardinality({i \in DOMAIN s : s[i] = x})

\* C18: sortFlights by price places every flight with an unparseable price after
\* every flight with a parseable price, in both price-asc and price-desc, while
\* the parseable prices appear in ascending respectively descending order; the
\* output is a permutation of the input.
C18_UnparseableLast ==
    (ppc = "done" /\ psort \in {"price-asc", "price-desc"}) =>
        /\ Len(psorted) = Len(pfiltered)
        /\ \A x \in FlightCatalog : Count(psorted, x) = Count(pfiltered, x)
        /\ \A i, j \in DOMAIN psorted :
              i < j =>
                  /\ Unparseable(psorted[i]) => Unparseable(psorted[j])
                  /\ (~Unparseable(psorted[i]) /\ ~Unparseable(psorted[j])) =>
                         IF psort = "price-asc"
                         THEN parsePriceToNumber(psorted[i].price)
                                  <= parsePriceToNumber(psorted[j].price)
                         ELSE parsePriceToNumber(psorted[i].price)
                                  >= parsePriceToNumber(psorted[j].price)

\* C18 witness: a descending sort that moves an unparseable price behind two
\* different parseable prices
C18_Witness ==
    /\ ppc = "done"
    /\ psort = "price-desc"
    /\ Len(psorted) = 3
    /\ Unparseable(pfiltered[1])
    /\ Unparseable(psorted[3]) /\ ~Unparseable(psorted[1])
    /\ parsePriceToNumber(psorted[1].price) > parsePriceToNumber(psorted[2].price)

\* ---------------------------------------------------------- cache key claims
\* the two searches have the same parameters, the letter case of the currency aside
SameSearch(p, q) ==
    /\ [p EXCEPT !.currency = << >>] = [q EXCEPT !.currency = << >>]
    /\ toUpperCase(p.currency) = toUpperCase(q.currency)

\* C19: two calls of createCacheKey whose parameters are equal up to the letter
\* case of the currency return identical keys, and two calls that differ in any
\* one of the parameters return different keys.
C19_CanonicalKey ==
    kkeys # << >> => (kkeys[1] = kkeys[2] <=> SameSearch(kparams[1], kparams[2]))

\* identical searches get identical keys (the half of C19 that holds)
SameSearchSameKey ==
    (kkeys # << >> /\ SameSearch(kparams[1], kparams[2])) => kkeys[1] = kkeys[2]

\* ------------------------------------------------------------ claims C14, C15
\* the oldest timestamp still inside the trailing window of `now`
OldestInWindow(requests, now) ==
    LET recent == Recent(requests, now - WindowMs)
    IN CHOOSE t \in {recent[i] : i \in 1..Len(recent)} :
           \A i \in 1..Len(recent) : t <= recent[i]

\* fiber f takes the Ref.modify step of its acquire()
CheckStep(f) == lpc[f] = "check" /\ lpc'[f] # "check"

\* a rejection reports ceil((oldest + windowMs - now) / 1000) seconds
RejectReportsOldest ==
    \A f \in Fibers :
        (CheckStep(f) /\ rejected' = rejected + 1) =>
            retryAt' - clock =
                MsPerSecond * CeilDiv(OldestInWindow(requestsRef, lnow[f]) + WindowMs - lnow[f],
                                      MsPerSecond)

\* an acquire() that read its `now` once the reported wait was over, with no
\* admission since the rejection, is admitted
RetryAfterWaitAdmitted ==
    \A f \in Fibers :
        (CheckStep(f) /\ retryAt > 0 /\ lnow[f] >= retryAt) => rejected' = rejected

\* C14: under every interleaving, the wait a rejected acquire() reports is
\* the time until the oldest timestamp still inside the trailing window
\* leaves it, rounded up to seconds, and an acquire() issued after waiting
\* that long, with no other admission in between, is admitted.
C14_WaitUntilOldestExpires == [][RejectReportsOldest /\ RetryAfterWaitAdmitted]_vars

\* the same two properties for acquires whose Ref operations run at the
\* instant of their clock read
C14_HoldsWithoutStall ==
    [][(~stalled') => (RejectReportsOldest /\ RetryAfterWaitAdmitted)]_vars

\* fiber f takes the Ref.getAndSet step of its acquire()
SpacingStep(f) == lpc[f] = "spacing" /\ lpc'[f] # "spacing"

\* reset() has returned and no acquire() has touched the window since
AfterReset == resetPc = "done" /\ windowClean

ResetThenStatsZero == (AfterReset /\ stats = NoStats /\ stats' # NoStats) => stats' = 0

ResetThenAdmitted ==
    \A f \in Fibers : (AfterReset /\ CheckStep(f)) => rejected' = rejected

ResetThenNotSuspended ==
    \A f \in Fibers :
        (resetPc = "done" /\ lastClean /\ SpacingStep(f)) => lpc'[f] = "idle"

\* C15: after reset(), whatever the history before it, getStats() reports 0
\* requests, the next acquire() is admitted, and that acquire() is not
\* suspended for the minimum spacing.
C15_ResetClears ==
    [][ResetThenStatsZero /\ ResetThenAdmitted /\ ResetThenNotSuspended]_vars

\* reset() ran on a full window: maxRequests + 1 acquires were admitted
\* inside one window, each at the instant of its clock read, getStats()
\* reported 0 in between, and the acquire() after reset() returned at the
\* instant it was issued
C15_Witness ==
    /\ resetPc = "done"
    /\ stats = 0
    /\ minDelay > 0
    /\ Len(admitted) = MaxRequests + 1
    /\ \A i \in 1..Len(admitted) :
           /\ admitted[i].ts = admitted[i].at
           /\ admitted[Len(admitted)].ts - admitted[i].ts < WindowMs
    /\ admitted[Len(admitted)].ts = clock
    /\ ~windowClean
    /\ ~lastClean
    /\ \A f \in Fibers : lpc[f] = "idle"

\* ----------------------------------------------------------- scraper claims
\* the raw Results an extraction returns for the requests of cache key k
RawResults(k) ==
    {extractFlightsFromHtml(RequestPages[r]) :
        r \in {q \in ScrapeRequests : RequestKeys[q] = k}}

\* C11: the cache holds the raw extraction result, never a presented one,
\* and a scrape served from the cache returns applyFiltersAndSort of that
\* raw result under its own filters and sort option.
C11_CacheHoldsRaw ==
    /\ \A i \in DOMAIN cacheRef : cacheRef[i].data \in RawResults(cacheRef[i].key)
    /\ \A f \in ScrapeFibers :
           (sreturn[f].tag = "ok" /\ sreturn[f].cached) =>
               /\ sresult[f] \in RawResults(skey[f])
               /\ sreturn[f].flights =
                      applyFiltersAndSort(sresult[f], sreq[f].filters, sreq[f].sortOption)

\* a scrape with limit 1, a price filter and price-asc stored the entry; a
\* later scrape of the same search without filters was served from it and
\* returned every flight of the stored page
C11_Witness ==
    \E f \in ScrapeFibers :
        /\ spc[f] = "done"
        /\ sreturn[f].tag = "ok"
        /\ sreturn[f].cached
        /\ storer # NoRequest
        /\ storer.filters.limit = 1
        /\ storer.sortOption # sreq[f].sortOption
        /\ sreq[f].filters = NoFilters
        /\ sreturn[f].flights = sresult[f]
        /\ Len(sreturn[f].flights) > 1

\* a scrape() of fiber f starts with a round trip that has no return date
BeginsInvalid(f) ==
    /\ scrapes' = scrapes + 1
    /\ spc[f] \in {"idle", "done"}
    /\ sreq'[f] # NoRequest
    /\ sreq'[f].tripType = RoundTrip
    /\ sreq'[f].returnDate \in {NoDate, << >>}
    /\ \A g \in ScrapeFibers \ {f} : spc'[g] = spc[g] /\ sreq'[g] = sreq[g]

\* C12: a round-trip scrape without a return date fails with InvalidInput
\* before any cache read, acquire, token encoding or HTTP GET, and leaves the
\* cache and the rate limiter as they were.
C12_InvalidInputFirst ==
    [][\A f \in ScrapeFibers :
          BeginsInvalid(f) =>
              /\ spc'[f] = "done"
              /\ sreturn'[f] = Failure("InvalidInput")
              /\ scount'[f] = NoCounts
              /\ UNCHANGED <<cacheRef, requestsRef, lastRequestRef, gets>>]_vars

\* an invalid scrape has failed while the cache held an entry and the limiter
\* a request
C12_Witness ==
    \E f \in ScrapeFibers :
        /\ spc[f] = "done"
        /\ sreturn[f].tag = "InvalidInput"
        /\ sreq[f].returnDate = << >>
        /\ cacheRef # << >>
        /\ requestsRef # << >>
        /\ lastRequestRef > 0

\* C13: a scrape whose acquire() is rejected has returned RateLimitExceeded
\* at once: no HTTP GET, no backoff sleep, one admission attempt.
C13_RejectedFailsAtOnce ==
    \A f \in ScrapeFibers :
        sreturn[f].tag = "RateLimitExceeded" =>
            /\ spc[f] = "done"
            /\ scount[f].http = 0
            /\ scount[f].sleep = 0
            /\ scount[f].acquire = 1

\* a scrape was rejected on a full window
C13_Witness ==
    \E f \in ScrapeFibers :
        /\ spc[f] = "done"
        /\ sreturn[f].tag = "RateLimitExceeded"
        /\ scount[f].encode = 1
        /\ Len(requestsRef) >= MaxRequests

\* HTTP GETs sent at the instants from..to
RECURSIVE GetsIn(_, _)
GetsIn(from, to) ==
    IF from > to THEN 0
    ELSE (IF from \in DOMAIN gets THEN gets[from] ELSE 0) + GetsIn(from + 1, to)

\* C20: at most maxRequests HTTP GETs are sent in any interval of length
\* windowMs, retry attempts included.
C20_GetsWithinLimit ==
    \A t \in DOMAIN gets : GetsIn(t, t + WindowMs - 1) <= MaxRequests

\* ---------------------------------------------------------------------------
\* claims C25, C29, C30 (cache)
\* ---------------------------------------------------------------------------

\* the removal step of a get() whose key now holds an entry that is not expired
\* (stored by a set() after the get() read the map) leaves that entry
RemovalKeepsFresh ==
    \A f \in CacheFibers :
        (/\ RemoveStep(f)
         /\ Has(cacheRef, ckey[f])
         /\ ~Expired(clock, Entry(cacheRef, ckey[f]).timestamp)) =>
            /\ Has(cacheRef', ckey[f])
            /\ Entry(cacheRef', ckey[f]) = Entry(cacheRef, ckey[f])

\* C25: a get(key) that found an expired entry removes only that expired entry:
\* a fresh entry stored by a concurrent set(key, v) between get's read and its
\* removal step is still present after both complete.
C25_RemovesOnlyExpired == [][RemovalKeepsFresh]_vars

\* a set() of a key already held stores its value and timestamp under that key
\* and keeps every other entry as it was
ReplaceKeepsOthers ==
    \A f \in CacheFibers :
        (SetStep(f) /\ Has(cacheRef, ckey[f])) =>
            /\ KeysOf(cacheRef') = KeysOf(cacheRef)
            /\ Entry(cacheRef', ckey[f]).data = cval[f]
            /\ Entry(cacheRef', ckey[f]).timestamp = cnow[f]
            /\ \A k \in KeysOf(cacheRef) \ {ckey[f]} :
                  Entry(cacheRef', k) = Entry(cacheRef, k)

\* C29: set(key, v) for a key already held replaces that key's value and
\* timestamp and evicts no other key, also when the cache holds maxSize entries.
C29_ReplaceEvictsNothing == [][ReplaceKeepsOthers]_vars

\* C30: in every reachable state the number of entries held is at most maxSize.
C30_SizeWithinMax == Len(cacheRef) <= MaxSize

\* ---------------------------------------------------------------------------
\* claims C26, C27 (rate limiter)
\* ---------------------------------------------------------------------------

\* C26: in every reachable state the timestamps in the window are in
\* non-decreasing order, so the first retained element is the oldest.
C26_WindowSorted ==
    \A i, j \in DOMAIN requestsRef : i < j => requestsRef[i] <= requestsRef[j]

\* the step that rejects an acquire() leaves both Refs as they were and ends the call
RejectionKeepsRefs ==
    \A f \in Fibers :
        (CheckStep(f) /\ rejected' = rejected + 1) =>
            /\ requestsRef' = requestsRef
            /\ lastRequestRef' = lastRequestRef
            /\ lpc'[f] = "idle"

\* C27: a rejected acquire() changes nothing: the window (neither a new
\* timestamp nor any pruning) and the last-request timestamp are the same after
\* the rejection as before it.
C27_RejectionChangesNothing == [][RejectionKeepsRefs]_vars

\* an acquire() was rejected on a full window after maxRequests admissions
C27_Witness ==
    /\ rejected > 0
    /\ retryAt > 0
    /\ Len(requestsRef) = MaxRequests
    /\ lastRequestRef > 0
    /\ \A f \in Fibers : lpc[f] = "idle"

\* ---------------------------------------------------------------------------
\* claim C23 (parseFlightsHtml)
\* ---------------------------------------------------------------------------

\* C23: in every Result of parseFlightsHtml at most one flight has is_best = true,
\* and a flight has is_best = true only if it was built from the item at index 0
\* of the first matched container; every other flight has is_best = false (and
\* the flight built from that item, when its name is known, has is_best = true).
C23_AtMostOneBest ==
    hpc = "done" =>
        /\ Cardinality({i \in DOMAIN hflights : hflights[i].is_best}) <= 1
        /\ \A i \in DOMAIN hflights : hflights[i].is_best <=> hfrom[i] = <<0, 0>>

\* a page of two containers with two named items each was parsed: the first
\* flight is the best one
C23_Witness ==
    /\ hpc = "done"
    /\ Len(hdoc) = MaxContainers
    /\ Len(hflights) >= 4
    /\ hflights[1].is_best
    /\ \E i \in DOMAIN hflights : hfrom[i] = <<1, 0>>

\* ---------------------------------------------------------------------------
\* claims C21, C22, C24, C28 (ScraperProductionLive)
\* ---------------------------------------------------------------------------

\* a scrape() starts in this step and is answered from the cache, fiber f
\* being the one that holds the answer while the other fibers stand still
HitStep(f) ==
    /\ spc[f] \in {"idle", "done"}
    /\ scrapes' = scrapes + 1
    /\ sreturn'[f].cached
    /\ \A g \in ScrapeFibers \ {f} : spc'[g] = spc[g] /\ sreturn'[g] = sreturn[g]

\* fiber f runs the Ref.update of its cache.set in this step
StoreStep(f) == spc[f] = "set" /\ spc'[f] # "set"

\* where one scrape() stands, from what it has done so far: the cache is read
\* before the limiter is asked, the limiter before any GET, a GET before the
\* extraction that precedes the cache write; a scrape answered from the cache
\* has asked for no slot, sent no GET and has returned
OrderInScrape ==
    \A f \in ScrapeFibers :
        /\ scount[f].acquire > 0 => scount[f].get = 1
        /\ scount[f].http > 0 => scount[f].acquire = 1
        /\ scount[f].sleep > 0 => scount[f].http > 0
        /\ spc[f] \in {"remove", "encode"} => scount[f].get = 1 /\ scount[f].acquire = 0
        /\ spc[f] = "set" => scount[f].http > 0 /\ sreturn[f].tag = "none"
        /\ (sreturn[f].tag = "ok" /\ ~sreturn[f].cached) => scount[f].http > 0
        /\ sreturn[f].cached =>
              /\ spc[f] = "done"
              /\ scount[f] = [NoCounts EXCEPT !.get = 1]

\* a hit leaves the limiter and the cache as they were; the cache is written
\* by the step that then returns the filtered, sorted and limited Result
WritesInOrder ==
    \A f \in ScrapeFibers :
        /\ HitStep(f) => UNCHANGED <<requestsRef, lastRequestRef, cacheRef>>
        /\ StoreStep(f) =>
              /\ Has(cacheRef', skey[f])
              /\ Entry(cacheRef', skey[f]).data = sresult[f]
              /\ sreturn'[f] = Success(applyFiltersAndSort(sresult[f], sreq[f].filters,
                                                           sreq[f].sortOption), FALSE)
              /\ spc'[f] = "done"

\* C21: in one scrape the cache is read before the rate limiter is asked; on a
\* hit no rate-limit slot is consumed, no HTTP fetch is issued and the cache is
\* not written; on a miss the order is acquire, fetch (with retries), extract,
\* cache write, then filter/sort/limit.
C21_ScrapeOrder == [][OrderInScrape' /\ WritesInOrder]_vars

\* a scrape missed, fetched and stored; the next scrape was answered from the
\* cache and the limiter still holds the one admission of the first
C21_Witness ==
    \E f \in ScrapeFibers :
        /\ spc[f] = "done"
        /\ sreturn[f].cached
        /\ scrapes = 2
        /\ storer # NoRequest
        /\ Len(requestsRef) = 1
        /\ lastRequestRef > 0

\* a hit leaves every entry of the cache as it was, the one it read included
HitKeepsEntry ==
    (\E f \in ScrapeFibers : HitStep(f)) =>
        /\ cacheRef' = cacheRef
        /\ \E f \in ScrapeFibers :
              /\ HitStep(f)
              /\ Has(cacheRef', skey'[f])
              /\ Entry(cacheRef', skey'[f]).data = sresult'[f]

\* C22: applyFiltersAndSort has no side effect on its input: after it runs on a
\* Result read from the cache, the entry holds the same flights in the same
\* order, so a later request on the same key sees the full raw list.
C22_InputUntouched == [][HitKeepsEntry]_vars

\* a scrape was answered from the cache with a presented list that differs
\* from the stored one, and the entry still holds the stored list
C22_Witness ==
    \E f \in ScrapeFibers :
        /\ spc[f] = "done"
        /\ sreturn[f].cached
        /\ sreq[f].sortOption = "price-asc"
        /\ sreturn[f].flights # sresult[f]
        /\ Has(cacheRef, skey[f])
        /\ Entry(cacheRef, skey[f]).data = sresult[f]
        /\ Len(sresult[f]) = Len(UpstreamFlights)

\* what the call returns with CacheDisabled: its own URL is fetched
Uncached(r) ==
    applyFiltersAndSort(extractFlightsFromHtml(RequestPages[r]), r.filters, r.sortOption)

\* C24: caching is transparent: a scrape answered from the cache returns the
\* Result the same call returns with CacheDisabled, and two scrape calls with
\* the same cache key build the same upstream URL.
C24_CacheTransparent ==
    \A f \in ScrapeFibers :
        (sreturn[f].tag = "ok" /\ sreturn[f].cached) =>
            /\ sreturn[f].flights = Uncached(sreq[f])
            /\ (storer # NoRequest /\ RequestKeys[storer] = skey[f]) =>
                  RequestUrls[storer] = RequestUrls[sreq[f]]

\* the reasons a scrape fails with after a cache miss
MissFailures == Reasons \cup {"RateLimitExceeded", "ParsingError"}

\* between its cache miss and its failure a scrape leaves the cache as it was;
\* the cache.set step belongs to a scrape that has not failed and returns its
\* Result; with no other caller, the key is not held when the scrape has failed
FailureKeepsCache ==
    \A f \in ScrapeFibers :
        /\ (/\ spc[f] \in {"encode", "check", "spacing", "spaced", "fetch", "await", "backoff"}
            /\ spc'[f] # spc[f]) => cacheRef' = cacheRef
        /\ StoreStep(f) => sreturn[f].tag = "none" /\ sreturn'[f].tag = "ok"
        /\ (/\ spc[f] # "done"
            /\ spc'[f] = "done"
            /\ sreturn'[f].tag \in MissFailures
            /\ \A g \in ScrapeFibers \ {f} : spc[g] = "idle") => ~Has(cacheRef', skey[f])

\* C28: a scrape that fails after a cache miss (RateLimitExceeded,
\* NavigationFailed/Timeout after retries, ParsingError) leaves the cache
\* unchanged: no entry is written for its key, and a later scrape with the same
\* key misses again.
C28_FailureLeavesCache == [][FailureKeepsCache]_vars

\* a scrape missed, used up its retries and failed, and its key is not held
C28_Witness ==
    \E f \in ScrapeFibers :
        /\ spc[f] = "done"
        /\ sreturn[f].tag \in Reasons
        /\ scount[f].get = 1
        /\ scount[f].http >= 2
        /\ ~Has(cacheRef, skey[f])
====
